---- MODULE Spec2Model ----
(***************************************************************************)
(* Model of parallel_traversal.py: parallel_recursive_apply walks each     *)
(* root in the main thread and submits one task per entry to a             *)
(* ThreadPoolExecutor; the tasks run call_with_progress_and_try in the     *)
(* pool's worker threads.                                                  *)
(***************************************************************************)
EXTENDS Integers, Sequences, FiniteSets, TLC

\* Largest num_max_threads the model tries.
MaxWorkers == 2

(***************************************************************************)
(* The filesystem.  An entry is a path; entries reached through a link     *)
(* are paths of their own (A/l/x), children of the link.                   *)
(*   1 A        directory            (root candidate)                      *)
(*   2 A/b      directory                                                  *)
(*   3 A/b/c    regular file                                               *)
(*   4 A/l      link to a directory: symlink (posix), junction (win32)     *)
(*   5 A/l/x    regular file seen through the link                         *)
(*   6 F        regular file         (root candidate)                      *)
(*   7 L        symlink to a directory (root candidate)                    *)
(*   8 L/y      regular file seen through the link                         *)
(* On win32 A/b/c is a WSL symlink (a regular file carrying the reparse    *)
(* tag LX_SYMLINK).                                                        *)
(***************************************************************************)
NoNode == 0

Entry(p, m, j, td, tag, sz) ==
    [parent |-> p, exists |-> TRUE, mode |-> m, junction |-> j,
     target_dir |-> td, tag |-> tag, size |-> sz]

FileSystem(platform) ==
    << Entry(0, "DIR", FALSE, FALSE, "NONE", 1),
       Entry(1, "DIR", FALSE, FALSE, "NONE", 1),
       IF platform = "win32"
           THEN Entry(2, "REG", FALSE, TRUE, "LX_SYMLINK", 0)
           ELSE Entry(2, "REG", FALSE, FALSE, "NONE", 2),
       IF platform = "win32"
           THEN Entry(1, "DIR", TRUE, TRUE, "NONE", 0)
           ELSE Entry(1, "LNK", FALSE, TRUE, "NONE", 1),
       Entry(4, "REG", FALSE, FALSE, "NONE", 1),
       Entry(0, "REG", FALSE, FALSE, "NONE", 1),
       Entry(0, "LNK", FALSE, TRUE, "NONE", 1),
       Entry(7, "REG", FALSE, FALSE, "NONE", 1) >>

Nodes == DOMAIN FileSystem("posix")

NodeSeq == [i \in Nodes |-> i]

\* The lists of roots the model passes as paths.
RootLists == { <<1>>, <<6>>, <<7>>, <<6, 7>> }

(***************************************************************************)
(* FileType.from_path                                                      *)
(***************************************************************************)
os_readlink_ok(e) == e.exists /\ (e.mode = "LNK" \/ e.junction)

\* A classifier that takes the metadata after following links (stat).
from_path_following(e, win32) ==
    IF ~e.exists THEN "NONEXISTENT"
    ELSE IF e.mode = "DIR" \/ e.target_dir THEN "DIRECTORY"
    ELSE IF e.mode = "REG" THEN "FILE"
    ELSE "UNKNOWN"

\* The members of the enum FileType.
FileType == {"NONEXISTENT", "FILE", "DIRECTORY", "SYMLINK", "WSL_SYMLINK",
             "JUNCTION", "DEVICE", "UNKNOWN"}

\* Members of the enum ReparseTag; an entry's tag is one of these, "NONE"
\* when it carries no reparse point, or "UNLISTED" for a tag value that is
\* not a member of the enum.
ReparseTag == {"LX_SYMLINK", "DEDUP", "APPEXECLINK"}

\* FSCTL_GET_REPARSE_POINT succeeds.
is_reparse_point(e) == e.tag # "NONE"

\* A decoder that hands an unlisted tag on as it is.
get_reparse_info_raw(e) == e.tag

\* ReparseTag(data_buffer.ReparseTag): the enum's constructor raises
\* ValueError for a value that is not a member.
get_reparse_info(e) == IF e.tag \in ReparseTag THEN e.tag ELSE "ValueError"

\* The kind returned, or "ValueError" when the call raises.
from_path(e, win32) ==
    IF ~e.exists THEN "NONEXISTENT"
    ELSE IF e.mode = "LNK" THEN "SYMLINK"
    ELSE IF os_readlink_ok(e) THEN "JUNCTION"
    ELSE IF e.mode = "DIR" THEN "DIRECTORY"
    ELSE IF e.mode = "REG" THEN
        IF win32 /\ is_reparse_point(e) THEN
            LET reparse_tag == get_reparse_info(e)
            IN  IF reparse_tag = "ValueError" THEN "ValueError"
                ELSE IF reparse_tag = "LX_SYMLINK" THEN "WSL_SYMLINK"
                ELSE IF reparse_tag = "DEDUP" THEN "FILE"
                ELSE "UNKNOWN"
        ELSE "FILE"
    ELSE IF e.mode \in {"BLK", "CHR", "FIFO", "SOCK"} THEN "DEVICE"
    ELSE "UNKNOWN"

\* os.path.isdir and DirEntry.is_dir follow symbolic links.
os_path_isdir(e) ==
    e.exists /\ (e.mode = "DIR" \/ (e.mode = "LNK" /\ e.target_dir))

os_path_islink(e) == e.exists /\ e.mode = "LNK"

\* A check that finds no entry.
os_path_lexists_never(e) == FALSE

os_path_lexists(e) == e.exists

(***************************************************************************)
(* State                                                                   *)
(***************************************************************************)
VARIABLES
    \* the environment and the arguments of parallel_recursive_apply
    platform, fs, paths, pre_order, num_max_threads,
    strict_hierarchical_order, print_lock,
    \* the main thread: its position and its locals
    mpc, path_i, root_dir, walk_stack, gen_stack, parent, dirnames,
    filenames, di, fi, prune_dir_indexes, parent_future,
    dirpath_to_future, child_futures,
    \* the executor: the work items in submission order, each with the
    \* position of the worker thread that runs it
    tasks,
    \* the module's globals, the lock object, standard output, the process
    num_done_files, num_done_dirs, num_done_bytes,
    lock_holder, err_printed, final_printed, exited,
    \* history: the tasks whose user function raised
    op_raised,
    \* time.time() in ticks, and how many times parallel_recursive_apply has
    \* been called in this process
    now, calls,
    \* the global last_print_time, and the lines written to standard output
    last_print_time, out,
    \* one call of the renderer's layout: its inputs and the line it builds
    terminal_width, message, path_text, line,
    \* one call of FileType.from_path: the entry and the answer
    probe, kind,
    \* one call of pretty_time: its argument and the string it returns
    seconds, pretty,
    \* one turn of the loop over paths: the string given, the loop variable
    \* path, the position in the loop body
    root_in, root_path, root_pc,
    \* one call of get_reparse_info: the link on disk, the REPARSE_DATA_BUFFER
    \* the call fills, the payload object it returns, the substitute_name
    \* read from that object, the position in the call
    link_kind, link_target, data_buffer, payload, substitute_name,
    reparse_pc,
    \* the copy consumer: the calls of copy_file on regular files, the
    \* module's dict src_inode_to_dest_path, the destination directory
    jobs, src_inode_to_dest_path, dest,
    \* the upload consumer: the calls of scp_dir and scp_file, the Queue of
    \* SFTP connections, the connections closed
    ops, connections, closed,
    \* the diff consumer, one call of diff_file: the two files with their
    \* read positions, the position in the function, the lines printed
    src_file, dest_file, diff_pc, reports

env_vars == <<platform, fs, paths, pre_order, num_max_threads,
              strict_hierarchical_order, print_lock>>

main_vars == <<mpc, path_i, root_dir, walk_stack, gen_stack, parent,
               dirnames, filenames, di, fi, prune_dir_indexes,
               parent_future, dirpath_to_future, child_futures>>

walk_vars == <<root_dir, walk_stack, gen_stack, parent, dirnames,
               filenames, di, fi, prune_dir_indexes, parent_future,
               dirpath_to_future, child_futures>>

counter_vars == <<num_done_files, num_done_dirs, num_done_bytes>>

print_vars == <<last_print_time, out>>

out_vars == <<lock_holder, err_printed, final_printed, exited, op_raised,
              print_vars>>

clock_vars == <<now, calls>>

render_vars == <<terminal_width, message, path_text, line>>

probe_vars == <<probe, kind>>

fmt_vars == <<seconds, pretty>>

root_vars == <<root_in, root_path, root_pc>>

\* The calls of the functions that touch no shared state.
reparse_vars ==
    <<link_kind, link_target, data_buffer, payload, substitute_name,
      reparse_pc>>

pure_vars == <<render_vars, probe_vars, fmt_vars, root_vars, reparse_vars>>

cp_vars == <<jobs, src_inode_to_dest_path, dest>>

scp_vars == <<ops, connections, closed>>

diff_vars == <<src_file, dest_file, diff_pc, reports>>

\* The consumers' own state.
app_vars == <<cp_vars, scp_vars, diff_vars>>

\* What the traversal engine leaves alone.
idle_vars == <<pure_vars, app_vars>>

vars == <<env_vars, main_vars, tasks, counter_vars, out_vars, clock_vars,
          idle_vars>>

NoTask == 0

win32 == platform = "win32"

\* The entries below n: its entries and those below them.
RECURSIVE Below(_, _)
Below(m, n) ==
    /\ fs[m].parent # NoNode
    /\ fs[m].parent = n \/ Below(fs[m].parent, n)

\* os.scandir(top), in a fixed order: the entries whose parent is top.
scandir(top) ==
    SelectSeq(NodeSeq, LAMBDA c : fs[c].parent = top /\ fs[c].exists)

\* The split os.walk and walk_post_order make of a listing: entry.is_dir().
scan_dirs(top) == SelectSeq(scandir(top), LAMBDA c : os_path_isdir(fs[c]))

scan_nondirs(top) == SelectSeq(scandir(top), LAMBDA c : ~os_path_isdir(fs[c]))

\* One activation of the generator walk_post_order(top), after its scandir
\* loop: walk_dirs are the directories os.readlink fails on.
walk_frame(top) ==
    [top |-> top, dirs |-> scan_dirs(top), nondirs |-> scan_nondirs(top),
     walk_dirs |-> SelectSeq(scan_dirs(top),
                             LAMBDA c : ~os_readlink_ok(fs[c]))]

\* walk_post_order runs until its next yield: it recurses into the first
\* remaining walk_dir of the innermost activation until one has none left.
RECURSIVE walk_post_order(_)
walk_post_order(stack) ==
    LET f == Head(stack) IN
    IF f.walk_dirs = <<>> THEN stack
    ELSE walk_post_order(
             <<walk_frame(Head(f.walk_dirs))>>
             \o <<[f EXCEPT !.walk_dirs = Tail(@)]>> \o Tail(stack))

\* The same run of walk_post_order ends in FileNotFoundError: os.scandir(top)
\* is not guarded, and a directory listed a moment ago is gone.
RECURSIVE walk_post_order_raises(_)
walk_post_order_raises(stack) ==
    LET f == Head(stack) IN
    IF f.walk_dirs = <<>> THEN FALSE
    ELSE IF ~fs[Head(f.walk_dirs)].exists THEN TRUE
    ELSE walk_post_order_raises(
             <<walk_frame(Head(f.walk_dirs))>>
             \o <<[f EXCEPT !.walk_dirs = Tail(@)]>> \o Tail(stack))

\* os.walk swallows the OSError of os.scandir: a directory that is gone
\* yields nothing and the walk goes on with the next one.
RECURSIVE os_walk_next(_)
os_walk_next(pending) ==
    IF pending = <<>> \/ fs[Head(pending)].exists THEN pending
    ELSE os_walk_next(Tail(pending))

\* os.walk(top, followlinks=False) resumed after the caller's loop body: the
\* directories left in dirnames that are no symlinks are walked next, first
\* to last, before what was pending.
os_walk_pending(dnames, stack) ==
    SelectSeq(dnames, LAMBDA c : ~os_path_islink(fs[c])) \o stack

\* del dirnames[i] for the indexes in prune_dir_indexes.
RECURSIVE prune(_, _, _)
prune(dnames, idx, i) ==
    IF i > Len(dnames) THEN <<>>
    ELSE (IF \E k \in DOMAIN idx : idx[k] = i THEN <<>> ELSE <<dnames[i]>>)
         \o prune(dnames, idx, i + 1)

(***************************************************************************)
(* ThreadPoolExecutor.submit: the work item joins the FIFO queue; its      *)
(* future is its position in tasks.  A work item is queued, then run by a  *)
(* worker thread (pc is the thread's position in after_futures_done and    *)
(* call_with_progress_and_try, size and tmp its locals), then done, or     *)
(* failed when its future holds an exception.  The worker threads are      *)
(* interchangeable: a thread is the work item it runs.                     *)
(***************************************************************************)
Task(path, root, is_dir, deps, has_root) ==
    [path |-> path, root |-> root, is_dir |-> is_dir, deps |-> deps,
     has_root |-> has_root, pc |-> "queued", size |-> 0, tmp |-> 0]

NextFuture == Len(tasks) + 1

\* A scheduler that drops the dependency on the parent's task.
pre_order_no_wait(future) == {}

\* A scheduler that keeps the dependency whatever the caller asked for.
pre_order_always_wait(future) == {future}

\* The futures a pre-order child task waits on (lines 345 and 357).
pre_order_wait(future) ==
    IF strict_hierarchical_order THEN {future} ELSE {}

\* A scheduler that drops the dependencies on the children's tasks.
post_order_no_wait(futures) == {}

\* The futures a post-order directory task waits on (line 387).
post_order_wait(futures) ==
    IF strict_hierarchical_order THEN futures ELSE {}

\* The throttle of print_progress_inplace, 0.1 s, in ticks of 50 ms.
Interval == 2

\* An entry no call of FileType.from_path is looking at.
NoProbe == [exists |-> FALSE, mode |-> "REG", junction |-> FALSE,
            tag |-> "NONE"]

\* The arguments of parallel_recursive_apply and the platform it runs on.
InitArgs ==
    /\ platform \in {"posix", "win32"}
    /\ fs = FileSystem(platform)
    /\ paths \in RootLists
    /\ pre_order \in BOOLEAN
    /\ num_max_threads \in 1..MaxWorkers
    /\ strict_hierarchical_order \in BOOLEAN
    /\ print_lock \in BOOLEAN

\* The process when parallel_recursive_apply is first called: the module's
\* globals as the import left them, time.time() far from 0.
InitState ==
    /\ mpc = "roots"
    /\ path_i = 1
    /\ root_dir = NoNode
    /\ walk_stack = <<>>
    /\ gen_stack = <<>>
    /\ parent = NoNode
    /\ dirnames = <<>>
    /\ filenames = <<>>
    /\ di = 1
    /\ fi = 1
    /\ prune_dir_indexes = <<>>
    /\ parent_future = NoTask
    /\ dirpath_to_future = [n \in Nodes |-> NoTask]
    /\ child_futures = {}
    /\ tasks = <<>>
    /\ num_done_files = 0
    /\ num_done_dirs = 0
    /\ num_done_bytes = 0
    /\ lock_holder = 0
    /\ err_printed = {}
    /\ final_printed = FALSE
    /\ exited = FALSE
    /\ op_raised = {}
    /\ now = Interval
    /\ calls = 1
    /\ last_print_time = 0
    /\ out = <<>>

\* No layout is being computed.
InitNoRender ==
    /\ terminal_width = 0
    /\ message = <<>>
    /\ path_text = <<>>
    /\ line = <<>>

\* No entry is being classified.
InitNoProbe ==
    /\ probe = NoProbe
    /\ kind = "NONE"

\* No time is being formatted.
NoTime == [form |-> "none", h |-> 0, m |-> 0, s |-> 0, cs |-> 0]

InitNoFormat ==
    /\ seconds = 0
    /\ pretty = NoTime

\* No root string is being looked at.
InitNoRoot ==
    /\ root_in = <<>>
    /\ root_path = <<>>
    /\ root_pc = "idle"

\* No buffer, no payload object, no name.
NoBuffer == [ReparseTag |-> "NONE", ReparseDataLength |-> 0,
             ReparseBuffer |-> <<>>]

NoPayload == [type |-> "None", attrs |-> {}, SubstituteNameLength |-> 0,
              buffer |-> <<>>]

NoName == [raised |-> "none", value |-> <<>>]

\* No reparse point is being read.
InitNoReparse ==
    /\ link_kind = "none"
    /\ link_target = <<>>
    /\ data_buffer = NoBuffer
    /\ payload = NoPayload
    /\ substitute_name = NoName
    /\ reparse_pc = "idle"

\* No pure function is being called.
InitNoPure ==
    InitNoRender /\ InitNoProbe /\ InitNoFormat /\ InitNoRoot
    /\ InitNoReparse

\* No file is being copied: the dict is empty as the import left it.
InitNoCopy ==
    /\ jobs = <<>>
    /\ src_inode_to_dest_path = <<>>
    /\ dest = <<>>

\* No upload is under way: no connection pool has been made.
InitNoUpload ==
    /\ ops = <<>>
    /\ connections = <<>>
    /\ closed = {}

\* No file is being compared.
InitNoDiff ==
    /\ src_file = [data |-> <<>>, pos |-> 0]
    /\ dest_file = [kind |-> "missing", data |-> <<>>, pos |-> 0]
    /\ diff_pc = "idle"
    /\ reports = <<>>

\* The consumers are idle.
InitNoConsumers == InitNoCopy /\ InitNoUpload /\ InitNoDiff

Init ==
    InitArgs /\ InitState /\ InitNoPure /\ InitNoConsumers

\* A process whose threads run on after the exit.
StillAlive == TRUE

\* Nothing runs once os._exit has ended the process.
Alive == ~exited

(***************************************************************************)
(* The main thread: parallel_recursive_apply                               *)
(***************************************************************************)
\* for path in paths: a path os.path.isdir rejects is submitted as
\* file_func(Path(path)), with no root argument.
SubmitNonDirRoot ==
    /\ Alive /\ mpc = "roots" /\ path_i <= Len(paths)
    /\ ~os_path_isdir(fs[paths[path_i]])
    /\ tasks' = Append(tasks, Task(paths[path_i], NoNode, FALSE, {}, FALSE))
    /\ path_i' = path_i + 1
    /\ UNCHANGED <<env_vars, clock_vars, idle_vars, mpc, walk_vars, counter_vars,
                   out_vars>>

\* _parallel_pre_order_apply, up to its loop: the root's dir_func is
\* submitted and os.walk(root_dir) is created.
PreOrderRoot ==
    /\ Alive /\ mpc = "roots" /\ path_i <= Len(paths)
    /\ os_path_isdir(fs[paths[path_i]])
    /\ pre_order
    /\ root_dir' = paths[path_i]
    /\ tasks' = Append(tasks, Task(paths[path_i], paths[path_i], TRUE, {},
                                   TRUE))
    /\ dirpath_to_future' =
           [n \in Nodes |-> IF n = paths[path_i] THEN NextFuture ELSE NoTask]
    /\ parent_future' = NextFuture
    /\ walk_stack' = <<paths[path_i]>>
    /\ dirnames' = <<>>
    /\ filenames' = <<>>
    /\ mpc' = "pre_walk"
    /\ UNCHANGED <<env_vars, clock_vars, idle_vars, path_i, gen_stack, parent, di, fi,
                   prune_dir_indexes, child_futures, counter_vars, out_vars>>

\* for parent, dirnames, filenames in os.walk(root_dir): the next directory,
\* or the end of the walk and of _parallel_pre_order_apply.
PreOrderWalk ==
    /\ Alive
    /\ \/ mpc = "pre_walk"
       \/ mpc = "pre_files" /\ fi > Len(filenames)
    /\ LET pending == os_walk_next(os_walk_pending(dirnames, walk_stack)) IN
       IF pending = <<>>
       THEN /\ mpc' = "roots"
            /\ path_i' = path_i + 1
            /\ walk_stack' = <<>>
            /\ UNCHANGED <<parent, dirnames, filenames, parent_future,
                           dirpath_to_future>>
       ELSE /\ mpc' = "pre_dirs"
            /\ walk_stack' = Tail(pending)
            /\ parent' = Head(pending)
            /\ dirnames' = scan_dirs(Head(pending))
            /\ filenames' = scan_nondirs(Head(pending))
            /\ parent_future' = dirpath_to_future[Head(pending)]
            /\ dirpath_to_future' =
                   [dirpath_to_future EXCEPT ![Head(pending)] = NoTask]
            /\ UNCHANGED path_i
    /\ di' = 1
    /\ fi' = 1
    /\ prune_dir_indexes' = <<>>
    /\ UNCHANGED <<env_vars, clock_vars, idle_vars, root_dir, gen_stack, child_futures, tasks,
                   counter_vars, out_vars>>

\* for i, dirname in enumerate(dirnames): one iteration.
PreOrderDir ==
    /\ Alive /\ mpc = "pre_dirs" /\ di <= Len(dirnames)
    /\ IF from_path(fs[dirnames[di]], win32) # "DIRECTORY"
       THEN /\ filenames' = Append(filenames, dirnames[di])
            /\ prune_dir_indexes' = Append(prune_dir_indexes, di)
            /\ UNCHANGED <<tasks, dirpath_to_future>>
       ELSE /\ tasks' = Append(tasks,
                               Task(dirnames[di], root_dir, TRUE,
                                    pre_order_wait(parent_future), TRUE))
            /\ dirpath_to_future' =
                   [dirpath_to_future EXCEPT ![dirnames[di]] = NextFuture]
            /\ UNCHANGED <<filenames, prune_dir_indexes>>
    /\ di' = di + 1
    /\ UNCHANGED <<env_vars, clock_vars, idle_vars, mpc, path_i, root_dir, walk_stack, gen_stack,
                   parent, dirnames, fi, parent_future, child_futures,
                   counter_vars, out_vars>>

\* for i in reversed(prune_dir_indexes): del dirnames[i]
PreOrderPrune ==
    /\ Alive /\ mpc = "pre_dirs" /\ di > Len(dirnames)
    /\ dirnames' = prune(dirnames, prune_dir_indexes, 1)
    /\ mpc' = "pre_files"
    /\ UNCHANGED <<env_vars, clock_vars, idle_vars, path_i, root_dir, walk_stack, gen_stack, parent,
                   filenames, di, fi, prune_dir_indexes, parent_future,
                   dirpath_to_future, child_futures, tasks, counter_vars, out_vars>>

\* for filename in filenames: one iteration.
PreOrderFile ==
    /\ Alive /\ mpc = "pre_files" /\ fi <= Len(filenames)
    /\ IF os_path_lexists(fs[filenames[fi]])
       THEN tasks' = Append(tasks,
                            Task(filenames[fi], root_dir, FALSE,
                                 pre_order_wait(parent_future), TRUE))
       ELSE UNCHANGED tasks
    /\ fi' = fi + 1
    /\ UNCHANGED <<env_vars, clock_vars, idle_vars, mpc, path_i, root_dir, walk_stack, gen_stack,
                   parent, dirnames, filenames, di, prune_dir_indexes,
                   parent_future, dirpath_to_future, child_futures,
                   counter_vars, out_vars>>

\* _parallel_post_order_apply, up to its loop: walk_post_order(root_dir) is
\* created; its first activation lists the root.
PostOrderRoot ==
    /\ Alive /\ mpc = "roots" /\ path_i <= Len(paths)
    /\ os_path_isdir(fs[paths[path_i]])
    /\ ~pre_order
    /\ root_dir' = paths[path_i]
    /\ dirpath_to_future' = [n \in Nodes |-> NoTask]
    /\ gen_stack' = <<walk_frame(paths[path_i])>>
    /\ mpc' = "post_walk"
    /\ UNCHANGED <<env_vars, clock_vars, idle_vars, path_i, walk_stack, parent, dirnames, filenames,
                   di, fi, prune_dir_indexes, parent_future, child_futures,
                   tasks, counter_vars, out_vars>>

\* for parent, dirnames, filenames in walk_post_order(root_dir): the next
\* directory, bottom-up, or the end of the walk, or the generator's
\* FileNotFoundError, which leaves the with block.
PostOrderWalk ==
    /\ Alive /\ mpc = "post_walk"
    /\ IF gen_stack = <<>>
       THEN /\ mpc' = "roots"
            /\ path_i' = path_i + 1
            /\ UNCHANGED <<gen_stack, parent, dirnames, filenames>>
       ELSE IF walk_post_order_raises(gen_stack)
       THEN /\ mpc' = "unwinding"
            /\ UNCHANGED <<path_i, gen_stack, parent, dirnames, filenames>>
       ELSE LET stack == walk_post_order(gen_stack) IN
            /\ mpc' = "post_dirs"
            /\ parent' = Head(stack).top
            /\ dirnames' = Head(stack).dirs
            /\ filenames' = Head(stack).nondirs
            /\ gen_stack' = Tail(stack)
            /\ UNCHANGED path_i
    /\ child_futures' = {}
    /\ di' = 1
    /\ fi' = 1
    /\ UNCHANGED <<env_vars, clock_vars, idle_vars, root_dir, walk_stack, prune_dir_indexes,
                   parent_future, dirpath_to_future, tasks, counter_vars, out_vars>>

\* for dirname in dirnames: one iteration.
PostOrderDir ==
    /\ Alive /\ mpc = "post_dirs" /\ di <= Len(dirnames)
    /\ IF from_path(fs[dirnames[di]], win32) # "DIRECTORY"
       THEN /\ filenames' = Append(filenames, dirnames[di])
            /\ UNCHANGED <<child_futures, dirpath_to_future>>
       ELSE /\ child_futures' =
                   child_futures \cup {dirpath_to_future[dirnames[di]]}
            /\ dirpath_to_future' =
                   [dirpath_to_future EXCEPT ![dirnames[di]] = NoTask]
            /\ UNCHANGED filenames
    /\ di' = di + 1
    /\ UNCHANGED <<env_vars, clock_vars, idle_vars, mpc, path_i, root_dir, walk_stack, gen_stack,
                   parent, dirnames, fi, prune_dir_indexes, parent_future,
                   tasks, counter_vars, out_vars>>

\* A file loop that leaves the tasks of the entries moved over from dirnames
\* out of child_futures.
PostOrderFileDetached ==
    /\ Alive /\ mpc = "post_dirs" /\ di > Len(dirnames)
    /\ fi <= Len(filenames)
    /\ tasks' = Append(tasks, Task(filenames[fi], root_dir, FALSE, {}, TRUE))
    /\ child_futures' =
           IF \E i \in DOMAIN dirnames : dirnames[i] = filenames[fi]
           THEN child_futures
           ELSE child_futures \cup {NextFuture}
    /\ fi' = fi + 1
    /\ UNCHANGED <<env_vars, clock_vars, idle_vars, mpc, path_i, root_dir,
                   walk_stack, gen_stack, parent, dirnames, filenames, di,
                   prune_dir_indexes, parent_future, dirpath_to_future,
                   counter_vars, out_vars>>

\* for filename in filenames: one iteration.
PostOrderFile ==
    /\ Alive /\ mpc = "post_dirs" /\ di > Len(dirnames)
    /\ fi <= Len(filenames)
    /\ tasks' = Append(tasks, Task(filenames[fi], root_dir, FALSE, {}, TRUE))
    /\ child_futures' = child_futures \cup {NextFuture}
    /\ fi' = fi + 1
    /\ UNCHANGED <<env_vars, clock_vars, idle_vars, mpc, path_i, root_dir, walk_stack, gen_stack,
                   parent, dirnames, filenames, di, prune_dir_indexes,
                   parent_future, dirpath_to_future, counter_vars, out_vars>>

\* The directory's own task, submitted after those of its entries.
PostOrderSubmitDir ==
    /\ Alive /\ mpc = "post_dirs" /\ di > Len(dirnames)
    /\ fi > Len(filenames)
    /\ tasks' = Append(tasks, Task(parent, root_dir, TRUE,
                                   post_order_wait(child_futures), TRUE))
    /\ dirpath_to_future' = [dirpath_to_future EXCEPT ![parent] = NextFuture]
    /\ mpc' = "post_walk"
    /\ UNCHANGED <<env_vars, clock_vars, idle_vars, path_i, root_dir, walk_stack, gen_stack, parent,
                   dirnames, filenames, di, fi, prune_dir_indexes,
                   parent_future, child_futures, counter_vars,
                   out_vars>>

\* An executor left with shutdown(wait=False): the main thread goes on while
\* work items are queued or running.
ExecutorShutdownNoWait ==
    /\ Alive
    /\ \/ mpc = "roots" /\ path_i > Len(paths)
       \/ mpc = "unwinding"
    /\ mpc' = IF mpc = "unwinding" THEN "raised" ELSE "final"
    /\ UNCHANGED <<env_vars, clock_vars, idle_vars, path_i, walk_vars, tasks,
                   counter_vars, out_vars>>

\* Leaving the with block: ThreadPoolExecutor.__exit__ is shutdown(wait=True),
\* which joins the worker threads once the queue is drained.  An exception
\* of the main thread then reaches the caller of parallel_recursive_apply.
ExecutorShutdown ==
    /\ Alive
    /\ \/ mpc = "roots" /\ path_i > Len(paths)
       \/ mpc = "unwinding"
    /\ \A t \in DOMAIN tasks : tasks[t].pc \in {"done", "failed"}
    /\ mpc' = IF mpc = "unwinding" THEN "raised" ELSE "final"
    /\ UNCHANGED <<env_vars, clock_vars, idle_vars, path_i, walk_vars, tasks, counter_vars, out_vars>>

\* print_progress_inplace(keep_time_interval=False); print(): the forced
\* line, written without print_lock.
FinalPrint ==
    /\ Alive /\ mpc = "final"
    /\ final_printed' = TRUE
    /\ last_print_time' = now
    /\ out' = Append(out, [kind |-> "final", time |-> now, locked |-> FALSE,
                           files |-> num_done_files, dirs |-> num_done_dirs,
                           bytes |-> num_done_bytes])
    /\ mpc' = "returned"
    /\ UNCHANGED <<env_vars, clock_vars, idle_vars, path_i, walk_vars, tasks,
                   counter_vars, lock_holder, err_printed, exited, op_raised>>

(***************************************************************************)
(* The worker threads                                                      *)
(***************************************************************************)
\* The futures that are done, and the work items a thread is running.
fut_done == {t \in DOMAIN tasks : tasks[t].pc \in {"done", "failed"}}

Queue == {t \in DOMAIN tasks : tasks[t].pc = "queued"}

InProgress == DOMAIN tasks \ (Queue \cup fut_done)

\* A queue that hands out the newest item first.
QueueNewest == CHOOSE t \in Queue : \A u \in Queue : u <= t

\* The work queue is FIFO: the item dequeued next is the oldest.
QueueHead == CHOOSE t \in Queue : \A u \in Queue : t <= u

\* A pool that starts a thread for every work item.
UnboundedPool == TRUE

\* The pool has max_workers threads: one of them is free.
ThreadFree == Cardinality(InProgress) < num_max_threads

\* wait(futures) returns once every future is done.
wait(futures) == futures \subseteq fut_done

At(t, pc) == [tasks EXCEPT ![t].pc = pc]

\* A free worker thread dequeues the oldest work item.
WorkerTake(t) ==
    /\ Alive /\ Queue # {}
    /\ t = QueueHead
    /\ ThreadFree
    /\ tasks' = At(t, "wait")
    /\ UNCHANGED <<env_vars, clock_vars, idle_vars, main_vars, counter_vars, out_vars>>

\* file_func(Path(path)): call_with_progress_and_try is called without its
\* root argument; the TypeError ends the task inside its future.
CallTypeError(t) ==
    /\ Alive /\ tasks[t].pc = "wait"
    /\ ~tasks[t].has_root
    /\ tasks' = At(t, "failed")
    /\ UNCHANGED <<env_vars, clock_vars, idle_vars, main_vars, counter_vars, out_vars>>

\* A wrapper that takes the size inside its try block: a stat that fails
\* is handled like an exception of the user's function.
TaskStartGuarded(t) ==
    /\ Alive /\ tasks[t].pc = "wait"
    /\ tasks[t].has_root
    /\ wait(tasks[t].deps)
    /\ IF fs[tasks[t].path].exists
       THEN tasks' = [tasks EXCEPT ![t].pc = "op",
                                   ![t].size = fs[tasks[t].path].size]
       ELSE tasks' = At(t, "except")
    /\ UNCHANGED <<env_vars, clock_vars, idle_vars, main_vars, counter_vars,
                   out_vars>>

\* after_futures_done's wait(futures) is over (a task submitted directly
\* waits on nothing); call_with_progress_and_try takes the entry's size and
\* calls the user's function.  A stat that fails ends the task inside its
\* future.
TaskStart(t) ==
    /\ Alive /\ tasks[t].pc = "wait"
    /\ tasks[t].has_root
    /\ wait(tasks[t].deps)
    /\ IF fs[tasks[t].path].exists
       THEN tasks' = [tasks EXCEPT ![t].pc = "op",
                                   ![t].size = fs[tasks[t].path].size]
       ELSE tasks' = At(t, "failed")
    /\ UNCHANGED <<env_vars, clock_vars, idle_vars, main_vars, counter_vars, out_vars>>

\* func(path, root) returns.
OpReturn(t) ==
    /\ Alive /\ tasks[t].pc = "op"
    /\ tasks' = At(t, "inc_read")
    /\ UNCHANGED <<env_vars, clock_vars, idle_vars, main_vars, counter_vars, out_vars>>

\* A wrapper that swallows the exception and goes on to the accounting.
OpRaiseCounted(t) ==
    /\ Alive /\ tasks[t].pc = "op"
    /\ tasks' = At(t, "inc_read")
    /\ op_raised' = op_raised \cup {t}
    /\ UNCHANGED <<env_vars, clock_vars, idle_vars, main_vars, counter_vars,
                   lock_holder, err_printed, final_printed, exited,
                   print_vars>>

\* func(path, root) raises: the except clause is entered.
OpRaise(t) ==
    /\ Alive /\ tasks[t].pc = "op"
    /\ tasks' = At(t, "except")
    /\ op_raised' = op_raised \cup {t}
    /\ UNCHANGED <<env_vars, clock_vars, idle_vars, main_vars, counter_vars,
                   lock_holder, err_printed, final_printed, exited,
                   print_vars>>

\* with print_lock: (or no lock at all) before print(f"\rError: ...")
ErrPrintBegin(t) ==
    /\ Alive /\ tasks[t].pc = "except"
    /\ print_lock => lock_holder = NoTask
    /\ lock_holder' = IF print_lock THEN t ELSE lock_holder
    /\ tasks' = At(t, "err_print")
    /\ UNCHANGED <<env_vars, clock_vars, idle_vars, main_vars, counter_vars,
                   err_printed, final_printed, exited, op_raised, print_vars>>

\* The diagnostic is written and the lock released.
ErrPrintEnd(t) ==
    /\ Alive /\ tasks[t].pc = "err_print"
    /\ err_printed' = err_printed \cup {tasks[t].path}
    /\ out' = Append(out, [kind |-> "error", time |-> now,
                           locked |-> lock_holder = t])
    /\ lock_holder' = IF print_lock THEN NoTask ELSE lock_holder
    /\ tasks' = At(t, "os_exit")
    /\ UNCHANGED <<env_vars, clock_vars, idle_vars, main_vars, counter_vars,
                   final_printed, exited, op_raised, last_print_time>>

\* A handler that prints and falls through to the accounting.
NoOsExit(t) ==
    /\ Alive /\ tasks[t].pc = "os_exit"
    /\ tasks' = At(t, "inc_read")
    /\ UNCHANGED <<env_vars, clock_vars, idle_vars, main_vars, counter_vars, out_vars>>

\* os._exit(1)
OsExit(t) ==
    /\ Alive /\ tasks[t].pc = "os_exit"
    /\ exited' = TRUE
    /\ UNCHANGED <<env_vars, clock_vars, idle_vars, main_vars, tasks,
                   counter_vars, lock_holder, err_printed, final_printed,
                   op_raised, print_vars>>

\* num_done_dirs += 1 or num_done_files += 1: the global is loaded ...
CounterRead(t) ==
    /\ Alive /\ tasks[t].pc = "inc_read"
    /\ tasks' = [tasks EXCEPT ![t].pc = "inc_write",
                              ![t].tmp = IF tasks[t].is_dir
                                         THEN num_done_dirs
                                         ELSE num_done_files]
    /\ UNCHANGED <<env_vars, clock_vars, idle_vars, main_vars, counter_vars, out_vars>>

\* ... and stored, one more.
CounterWrite(t) ==
    /\ Alive /\ tasks[t].pc = "inc_write"
    /\ IF tasks[t].is_dir
       THEN /\ num_done_dirs' = tasks[t].tmp + 1
            /\ UNCHANGED num_done_files
       ELSE /\ num_done_files' = tasks[t].tmp + 1
            /\ UNCHANGED num_done_dirs
    /\ tasks' = [tasks EXCEPT ![t].pc = "bytes_read", ![t].tmp = 0]
    /\ UNCHANGED <<env_vars, clock_vars, idle_vars, main_vars, num_done_bytes, out_vars>>

\* num_done_bytes += size: the global is loaded ...
BytesRead(t) ==
    /\ Alive /\ tasks[t].pc = "bytes_read"
    /\ tasks' = [tasks EXCEPT ![t].pc = "bytes_write",
                              ![t].tmp = num_done_bytes]
    /\ UNCHANGED <<env_vars, clock_vars, idle_vars, main_vars, counter_vars, out_vars>>

\* ... and stored, size more.
BytesWrite(t) ==
    /\ Alive /\ tasks[t].pc = "bytes_write"
    /\ num_done_bytes' = tasks[t].tmp + tasks[t].size
    /\ tasks' = [tasks EXCEPT ![t].pc = "progress", ![t].tmp = 0]
    /\ UNCHANGED <<env_vars, clock_vars, idle_vars, main_vars, num_done_files, num_done_dirs,
                   out_vars>>

\* with print_lock: (or no lock at all) print_progress_inplace(path) is
\* entered: time.time() is read and compared with last_print_time.  tmp is
\* current_time, or 0 when the call returns at once, within the interval.
ProgressBegin(t) ==
    /\ Alive /\ tasks[t].pc = "progress"
    /\ print_lock => lock_holder = NoTask
    /\ lock_holder' = IF print_lock THEN t ELSE lock_holder
    /\ tasks' = [tasks EXCEPT ![t].pc = "printing",
                              ![t].tmp = IF now - last_print_time < Interval
                                         THEN 0 ELSE now]
    /\ UNCHANGED <<env_vars, clock_vars, idle_vars, main_vars, counter_vars,
                   err_printed, final_printed, exited, op_raised, print_vars>>

\* print_progress_inplace(path) is called without its print_lock argument,
\* which is None by default: its own `with print_lock` is not entered.
inner_print_lock == FALSE

\* last_print_time = current_time, and the line is built and written;
\* print_progress_inplace returns, the lock is released and
\* call_with_progress_and_try returns: the task is done.
ProgressEnd(t) ==
    /\ Alive /\ tasks[t].pc = "printing"
    /\ (inner_print_lock /\ tasks[t].tmp # 0) => lock_holder = NoTask
    /\ IF tasks[t].tmp = 0
       THEN UNCHANGED print_vars
       ELSE /\ last_print_time' = tasks[t].tmp
            /\ out' = Append(out, [kind |-> "progress",
                                   time |-> tasks[t].tmp,
                                   locked |-> lock_holder = t])
    /\ lock_holder' = IF print_lock THEN NoTask ELSE lock_holder
    /\ tasks' = [tasks EXCEPT ![t].pc = "done", ![t].tmp = 0]
    /\ UNCHANGED <<env_vars, clock_vars, idle_vars, main_vars, counter_vars,
                   err_printed, final_printed, exited, op_raised>>

Next ==
    \/ SubmitNonDirRoot
    \/ PreOrderRoot
    \/ PreOrderWalk
    \/ PreOrderDir
    \/ PreOrderPrune
    \/ PreOrderFile
    \/ PostOrderRoot
    \/ PostOrderWalk
    \/ PostOrderDir
    \/ PostOrderFile
    \/ PostOrderSubmitDir
    \/ ExecutorShutdown
    \/ FinalPrint
    \/ \E t \in DOMAIN tasks : WorkerTake(t)
    \/ \E t \in DOMAIN tasks : CallTypeError(t)
    \/ \E t \in DOMAIN tasks : TaskStart(t)
    \/ \E t \in DOMAIN tasks : OpReturn(t)
    \/ \E t \in DOMAIN tasks : OpRaise(t)
    \/ \E t \in DOMAIN tasks : ErrPrintBegin(t)
    \/ \E t \in DOMAIN tasks : ErrPrintEnd(t)
    \/ \E t \in DOMAIN tasks : OsExit(t)
    \/ \E t \in DOMAIN tasks : CounterRead(t)
    \/ \E t \in DOMAIN tasks : CounterWrite(t)
    \/ \E t \in DOMAIN tasks : BytesRead(t)
    \/ \E t \in DOMAIN tasks : BytesWrite(t)
    \/ \E t \in DOMAIN tasks : ProgressBegin(t)
    \/ \E t \in DOMAIN tasks : ProgressEnd(t)

Spec == Init /\ [][Next]_vars

\* The operating system keeps running the process: as long as some thread
\* can take a step, a step is taken.
FairSpec == Spec /\ WF_vars(Next)

(***************************************************************************)
(* The tree changes during the walk: another process removes an entry of   *)
(* the tree being walked, and everything below it.                         *)
(***************************************************************************)
\* The entries that may be removed: the directory A/b and the file A/b/c.
Volatile == {2, 3}

Unlink(n) ==
    /\ Alive /\ mpc \notin {"roots", "final", "returned", "raised"}
    /\ fs = FileSystem(platform)
    /\ Below(n, root_dir)
    /\ fs' = [m \in Nodes |->
                 IF m = n \/ Below(m, n)
                 THEN [fs[m] EXCEPT !.exists = FALSE] ELSE fs[m]]
    /\ UNCHANGED <<platform, paths, pre_order, num_max_threads,
                   strict_hierarchical_order, print_lock, main_vars, tasks,
                   counter_vars, out_vars, clock_vars, idle_vars>>

\* One worker thread serves the walk.
InitUnlink == Init /\ num_max_threads = 1

NextUnlink ==
    \/ Next
    \/ \E n \in Volatile : Unlink(n)

SpecUnlink == InitUnlink /\ [][NextUnlink]_vars

(***************************************************************************)
(* The caller calls parallel_recursive_apply again, with the same          *)
(* arguments, in the same process.                                         *)
(***************************************************************************)
\* The calls the model follows.
MaxCalls == 2

\* The call sets start_time and builds a new executor; the module's
\* counters and last_print_time are what the call before left.
CallAgain ==
    /\ Alive /\ mpc = "returned" /\ calls < MaxCalls
    /\ calls' = calls + 1
    /\ mpc' = "roots"
    /\ path_i' = 1
    /\ root_dir' = NoNode
    /\ walk_stack' = <<>>
    /\ gen_stack' = <<>>
    /\ parent' = NoNode
    /\ dirnames' = <<>>
    /\ filenames' = <<>>
    /\ di' = 1
    /\ fi' = 1
    /\ prune_dir_indexes' = <<>>
    /\ parent_future' = NoTask
    /\ dirpath_to_future' = [n \in Nodes |-> NoTask]
    /\ child_futures' = {}
    /\ tasks' = <<>>
    /\ final_printed' = FALSE
    /\ UNCHANGED <<env_vars, counter_vars, lock_holder, err_printed, exited,
                   op_raised, print_vars, now, idle_vars>>

\* One worker thread: no two tasks run at once.
InitCalls == Init /\ num_max_threads = 1

NextCalls ==
    \/ Next
    \/ CallAgain

SpecCalls == InitCalls /\ [][NextCalls]_vars

(***************************************************************************)
(* Time passes during the traversal.                                       *)
(***************************************************************************)
\* The ticks the model lets pass during one traversal.
MaxTicks == 2

\* time.time() advances by one tick.
Tick ==
    /\ Alive /\ mpc \notin {"returned", "raised"}
    /\ now < Interval + MaxTicks
    /\ now' = now + 1
    /\ UNCHANGED <<env_vars, main_vars, tasks, counter_vars, out_vars, calls,
                   idle_vars>>

\* A traversal of a posix tree without strict ordering.
InitTime ==
    /\ Init
    /\ platform = "posix" /\ ~strict_hierarchical_order

NextTime ==
    \/ Next
    \/ Tick

SpecTime == InitTime /\ [][NextTime]_vars

(***************************************************************************)
(* The layout of the progress line.  A string is the sequence of the       *)
(* widths wcwidth gives its glyphs: 1, or 2 for a wide glyph.              *)
(***************************************************************************)
\* The widest terminal and the longest path of the layouts checked.
MaxWidth == 7

MaxPathLen == 3

RECURSIVE wcswidth(_)
wcswidth(s) == IF s = <<>> THEN 0 ELSE Head(s) + wcswidth(Tail(s))

\* The glyphs of s, in order, up to the first that does not fit.
RECURSIVE truncate_str_end(_, _)
truncate_str_end(s, max_width) ==
    IF s = <<>> \/ Head(s) > max_width
    THEN <<>>
    ELSE <<Head(s)>> \o truncate_str_end(Tail(s), max_width - Head(s))

\* s[::-1]
Reversed(s) == [i \in 1..Len(s) |-> s[Len(s) + 1 - i]]

\* "..."
Ellipsis == <<1, 1, 1>>

\* A middle truncation that never returns more than max_width columns.
truncate_str_middle_fitting(s, max_width) ==
    IF wcswidth(s) <= max_width
    THEN s
    ELSE IF max_width < 3
         THEN truncate_str_end(s, max_width)
         ELSE LET half_max_width == (max_width - 3) \div 2
              IN  truncate_str_end(s, half_max_width) \o Ellipsis
                  \o Reversed(truncate_str_end(Reversed(s), half_max_width))

truncate_str_middle(s, max_width) ==
    IF wcswidth(s) <= max_width
    THEN s
    ELSE LET half_max_width == (max_width \div 2) - 1
             first_half == truncate_str_end(s, half_max_width)
             second_half ==
                 Reversed(truncate_str_end(Reversed(s), half_max_width))
         IN  first_half \o Ellipsis \o second_half

\* " " * n: empty when n is not positive.
Spaces(n) == IF n > 0 THEN [i \in 1..n |-> 1] ELSE <<>>

\* The line print_progress_inplace writes after "\r".
Layout(width, msg, path) ==
    LET message_width == wcswidth(msg)
        path_text_width == wcswidth(path)
    IN  IF message_width > width
        THEN truncate_str_end(msg, width) \o Spaces(width - width)
        ELSE IF message_width + path_text_width > width
             THEN LET truncated ==
                          truncate_str_middle(path, width - message_width - 3)
                      total == message_width + wcswidth(truncated)
                  IN  msg \o truncated \o Spaces(width - total)
             ELSE msg \o path
                  \o Spaces(width - (message_width + path_text_width))

\* The strings of at most n glyphs taken from the widths in W.
StringsUpTo(W, n) == UNION {[1..k -> W] : k \in 0..n}

\* A terminal, a prefix of narrow glyphs (digits, ASCII words) and a path of
\* narrow and wide glyphs; nothing rendered yet.
InitWidth ==
    /\ platform = "posix" /\ fs = FileSystem(platform)
    /\ paths = <<1>> /\ pre_order = TRUE /\ num_max_threads = 1
    /\ strict_hierarchical_order = TRUE /\ print_lock = FALSE
    /\ InitState /\ InitNoProbe /\ InitNoFormat /\ InitNoRoot
    /\ InitNoReparse
    /\ InitNoConsumers
    /\ terminal_width \in 1..MaxWidth
    /\ message \in StringsUpTo({1}, MaxWidth + 1)
    /\ path_text \in StringsUpTo({1, 2}, MaxPathLen)
    /\ line = <<>>

\* print_progress_inplace, from the terminal size query to the padding.
Render ==
    /\ line = <<>>
    /\ line' = Layout(terminal_width, message, path_text)
    /\ UNCHANGED <<env_vars, main_vars, tasks, counter_vars, out_vars,
                   clock_vars, terminal_width, message, path_text,
                   probe_vars, fmt_vars, root_vars, reparse_vars,
                   app_vars>>

SpecWidth == InitWidth /\ [][Render]_vars

(***************************************************************************)
(* FileType.from_path on one entry of any attributes.                      *)
(***************************************************************************)
Modes == {"LNK", "DIR", "REG", "BLK", "CHR", "FIFO", "SOCK", "OTHER"}

\* The entries lstat, os.readlink and the reparse ioctl can describe: only
\* on win32 does os.readlink succeed on a non-symlink or a file carry a tag.
Probes(p) ==
    {e \in [exists : BOOLEAN, mode : Modes, junction : BOOLEAN,
            tag : {"NONE", "UNLISTED"} \cup ReparseTag] :
        p = "posix" => (~e.junction /\ e.tag = "NONE")}

InitClassify ==
    /\ platform \in {"posix", "win32"}
    /\ fs = FileSystem(platform)
    /\ paths = <<1>> /\ pre_order = TRUE /\ num_max_threads = 1
    /\ strict_hierarchical_order = TRUE /\ print_lock = FALSE
    /\ InitState /\ InitNoRender /\ InitNoFormat /\ InitNoRoot
    /\ InitNoReparse
    /\ InitNoConsumers
    /\ probe \in Probes(platform)
    /\ kind = "NONE"

\* FileType.from_path(path)
Classify ==
    /\ kind = "NONE"
    /\ kind' = from_path(probe, platform = "win32")
    /\ UNCHANGED <<env_vars, main_vars, tasks, counter_vars, out_vars,
                   clock_vars, render_vars, probe, fmt_vars, root_vars,
                   reparse_vars, app_vars>>

SpecClassify == InitClassify /\ [][Classify]_vars

(***************************************************************************)
(* The copy consumer: copy_file on regular files, run by the workers.      *)
(***************************************************************************)
\* The regular files copied, the devices they lie on, their inode numbers.
MaxJobs == 2

MaxDevices == 2

MaxInodes == 2

NoJob == 0

JobIds == 1..MaxJobs

\* lstat of a source: st_dev, st_ino, st_nlink.
SourceStat == [dev : 1..MaxDevices, ino : 1..MaxInodes, nlink : 1..2]

\* Two names of one inode show the same link count, which is 2 or more.
Hardlinked(a, b) == a.dev = b.dev /\ a.ino = b.ino

SourceSets ==
    {f \in [JobIds -> SourceStat] :
        \A j, k \in JobIds :
            (j # k /\ Hardlinked(f[j], f[k])) => f[j].nlink > 1}

\* The files are in one directory of a pre-order traversal: their tasks
\* depend on the directory's task only and run on any free thread.  Every
\* file copied gets a destination path of its own, none of which exists.
InitCopy ==
    /\ platform = "posix" /\ fs = FileSystem(platform)
    /\ paths = <<1>> /\ pre_order = TRUE
    /\ num_max_threads \in 1..MaxWorkers
    /\ strict_hierarchical_order = TRUE /\ print_lock = FALSE
    /\ InitState /\ InitNoPure /\ InitNoUpload
    /\ InitNoDiff
    /\ \E f \in SourceSets :
           jobs = [j \in JobIds |->
                      [stat |-> f[j], pc |-> "queued", linked_to |-> NoJob]]
    /\ src_inode_to_dest_path = [i \in 1..MaxInodes |-> NoJob]
    /\ dest = [j \in JobIds |-> NoJob]

CopyRunning == {j \in DOMAIN jobs : jobs[j].pc \notin {"queued", "done"}}

\* The key under which copy_file files a source in the dict.
MapKey(st) == st.ino

copy_unchanged ==
    UNCHANGED <<env_vars, main_vars, tasks, counter_vars, out_vars,
                clock_vars, pure_vars, scp_vars, diff_vars>>

\* A worker thread takes the task; file_stat = src.lstat() and the test of
\* st_nlink.
CopyLstat(j) ==
    /\ jobs[j].pc = "queued"
    /\ Cardinality(CopyRunning) < num_max_threads
    /\ jobs' = [jobs EXCEPT ![j].pc =
                   IF jobs[j].stat.nlink > 1 THEN "lookup" ELSE "copy2"]
    /\ UNCHANGED <<src_inode_to_dest_path, dest>>
    /\ copy_unchanged

\* if file_stat.st_ino in src_inode_to_dest_path
CopyLookup(j) ==
    /\ jobs[j].pc = "lookup"
    /\ LET found == src_inode_to_dest_path[MapKey(jobs[j].stat)]
       IN  jobs' = [jobs EXCEPT
                       ![j].pc = IF found # NoJob THEN "hardlink"
                                 ELSE "insert",
                       ![j].linked_to = found]
    /\ UNCHANGED <<src_inode_to_dest_path, dest>>
    /\ copy_unchanged

\* dest.hardlink_to(...): an OSError (no file yet at the path found in the
\* dict) is passed over.
CopyHardlink(j) ==
    /\ jobs[j].pc = "hardlink"
    /\ dest' = IF dest[jobs[j].linked_to] # NoJob
               THEN [dest EXCEPT ![j] = dest[jobs[j].linked_to]]
               ELSE dest
    /\ jobs' = [jobs EXCEPT ![j].pc = "copystat"]
    /\ UNCHANGED src_inode_to_dest_path
    /\ copy_unchanged

\* shutil.copystat(src, dest), the message and return; with no file at dest
\* copystat raises FileNotFoundError, which the handler of OSError prints.
CopyStat(j) ==
    /\ jobs[j].pc = "copystat"
    /\ jobs' = [jobs EXCEPT ![j].pc = "done"]
    /\ UNCHANGED <<src_inode_to_dest_path, dest>>
    /\ copy_unchanged

\* src_inode_to_dest_path[file_stat.st_ino] = dest
CopyInsert(j) ==
    /\ jobs[j].pc = "insert"
    /\ src_inode_to_dest_path' =
           [src_inode_to_dest_path EXCEPT ![MapKey(jobs[j].stat)] = j]
    /\ jobs' = [jobs EXCEPT ![j].pc = "copy2"]
    /\ UNCHANGED dest
    /\ copy_unchanged

\* shutil.copy2(src, dest): a new file at dest holding the bytes of src.
Copy2(j) ==
    /\ jobs[j].pc = "copy2"
    /\ dest' = [dest EXCEPT ![j] = j]
    /\ jobs' = [jobs EXCEPT ![j].pc = "done"]
    /\ UNCHANGED src_inode_to_dest_path
    /\ copy_unchanged

NextCopy ==
    \/ \E j \in DOMAIN jobs : CopyLstat(j)
    \/ \E j \in DOMAIN jobs : CopyLookup(j)
    \/ \E j \in DOMAIN jobs : CopyHardlink(j)
    \/ \E j \in DOMAIN jobs : CopyStat(j)
    \/ \E j \in DOMAIN jobs : CopyInsert(j)
    \/ \E j \in DOMAIN jobs : Copy2(j)

SpecCopy == InitCopy /\ [][NextCopy]_vars

(***************************************************************************)
(* The upload consumer: scp_dir and scp_file, run by the workers, and the  *)
(* pool of SFTP connections parallel_scp_r makes and closes.               *)
(***************************************************************************)
\* The entries uploaded.
MaxOps == 3

NoConnection == 0

\* connections = Queue(maxsize=num_max_threads), filled with
\* num_max_threads connections; the traversal gets the same num_max_threads.
InitUpload ==
    /\ platform = "posix" /\ fs = FileSystem(platform)
    /\ paths = <<1>> /\ pre_order = TRUE
    /\ num_max_threads \in 1..MaxWorkers
    /\ strict_hierarchical_order = TRUE /\ print_lock = FALSE
    /\ InitState /\ InitNoPure /\ InitNoCopy
    /\ InitNoDiff
    /\ ops = [o \in 1..MaxOps |->
                 [pc |-> "queued", sftp |-> NoConnection, raised |-> FALSE,
                  got |-> NoConnection]]
    /\ connections = [c \in 1..num_max_threads |-> c]
    /\ closed = {}

ScpRunning == {o \in DOMAIN ops : ops[o].pc \notin {"queued", "done"}}

scp_unchanged ==
    UNCHANGED <<env_vars, main_vars, tasks, counter_vars, lock_holder,
                err_printed, final_printed, op_raised, print_vars,
                clock_vars, pure_vars, cp_vars, diff_vars>>

\* A free worker thread takes the task and reaches connections.get().
ScpStart(o) ==
    /\ Alive /\ ops[o].pc = "queued"
    /\ Cardinality(ScpRunning) < num_max_threads
    /\ ops' = [ops EXCEPT ![o].pc = "get"]
    /\ UNCHANGED <<connections, closed, exited>>
    /\ scp_unchanged

\* sftp = connections.get(): blocks while the queue is empty.
ScpGet(o) ==
    /\ Alive /\ ops[o].pc = "get"
    /\ connections # <<>>
    /\ ops' = [ops EXCEPT ![o].pc = "call", ![o].sftp = Head(connections),
                          ![o].got = Head(connections)]
    /\ connections' = Tail(connections)
    /\ UNCHANGED <<closed, exited>>
    /\ scp_unchanged

\* sftp.mkdir or sftp.put returns.
ScpCall(o) ==
    /\ Alive /\ ops[o].pc = "call"
    /\ ops' = [ops EXCEPT ![o].pc = "put"]
    /\ UNCHANGED <<connections, closed, exited>>
    /\ scp_unchanged

\* An OSError handler that returns without the trailing put.
ScpOSErrorReturn(o) ==
    /\ Alive /\ ops[o].pc = "call"
    /\ ops' = [ops EXCEPT ![o].pc = "done", ![o].sftp = NoConnection,
                          ![o].raised = TRUE]
    /\ UNCHANGED <<connections, closed, exited>>
    /\ scp_unchanged

\* The SFTP call raises an OSError: the traceback is printed and the
\* function goes on to its last statement.
ScpOSError(o) ==
    /\ Alive /\ ops[o].pc = "call"
    /\ ops' = [ops EXCEPT ![o].pc = "put", ![o].raised = TRUE]
    /\ UNCHANGED <<connections, closed, exited>>
    /\ scp_unchanged

\* The SFTP call raises another exception: it leaves the function, and
\* call_with_progress_and_try prints it and ends the process.
ScpRaise(o) ==
    /\ Alive /\ ops[o].pc = "call"
    /\ exited' = TRUE
    /\ UNCHANGED <<ops, connections, closed>>
    /\ scp_unchanged

\* connections.put(sftp), which blocks while the queue is full, and return.
ScpPut(o) ==
    /\ Alive /\ ops[o].pc = "put"
    /\ Len(connections) < num_max_threads
    /\ connections' = Append(connections, ops[o].sftp)
    /\ ops' = [ops EXCEPT ![o].pc = "done", ![o].sftp = NoConnection]
    /\ UNCHANGED <<closed, exited>>
    /\ scp_unchanged

\* parallel_recursive_apply has returned: connections.get().close(), once
\* for each of the num_max_threads connections.
ScpClose ==
    /\ Alive /\ \A o \in DOMAIN ops : ops[o].pc = "done"
    /\ Cardinality(closed) < num_max_threads
    /\ connections # <<>>
    /\ closed' = closed \cup {Head(connections)}
    /\ connections' = Tail(connections)
    /\ UNCHANGED <<ops, exited>>
    /\ scp_unchanged

NextUpload ==
    \/ \E o \in DOMAIN ops : ScpStart(o)
    \/ \E o \in DOMAIN ops : ScpGet(o)
    \/ \E o \in DOMAIN ops : ScpCall(o)
    \/ \E o \in DOMAIN ops : ScpOSError(o)
    \/ \E o \in DOMAIN ops : ScpRaise(o)
    \/ \E o \in DOMAIN ops : ScpPut(o)
    \/ ScpClose

SpecUpload == InitUpload /\ [][NextUpload]_vars

(***************************************************************************)
(* The delete consumer: force_delete as dir_func and file_func of a        *)
(* post-order traversal.                                                   *)
(***************************************************************************)
\* parallel_rm_r: pre_order=False, strict_hierarchical_order and print_lock
\* left at their defaults.
InitRm ==
    /\ Init
    /\ pre_order = FALSE /\ strict_hierarchical_order = TRUE
    /\ print_lock = FALSE

\* path.rmdir() removes an empty directory, or a junction; path.unlink()
\* removes anything but a directory.
Removable(t) ==
    LET e == fs[tasks[t].path] IN
    /\ e.exists
    /\ IF tasks[t].is_dir
       THEN /\ e.mode = "DIR"
            /\ \/ e.junction
               \/ \A c \in Nodes : fs[c].parent = tasks[t].path => ~fs[c].exists
       ELSE e.mode # "DIR" \/ e.junction

\* A delete that leaves the entry in place and returns.
RmKeep(t) ==
    /\ Alive /\ tasks[t].pc = "op"
    /\ Removable(t)
    /\ tasks' = At(t, "inc_read")
    /\ UNCHANGED <<env_vars, clock_vars, idle_vars, main_vars, counter_vars,
                   out_vars>>

\* force_delete returns: the entry is removed, at the first attempt or, after
\* a PermissionError, at the second.
RmReturn(t) ==
    /\ Alive /\ tasks[t].pc = "op"
    /\ Removable(t)
    /\ fs' = [fs EXCEPT ![tasks[t].path].exists = FALSE]
    /\ tasks' = At(t, "inc_read")
    /\ UNCHANGED <<platform, paths, pre_order, num_max_threads,
                   strict_hierarchical_order, print_lock, clock_vars,
                   idle_vars, main_vars, counter_vars, out_vars>>

\* force_delete raises: an OSError other than PermissionError (rmdir of a
\* directory that is not empty or of a symlink), or a PermissionError that
\* is still there after chmod.
RmRaise(t) ==
    /\ Alive /\ tasks[t].pc = "op"
    /\ tasks' = At(t, "except")
    /\ op_raised' = op_raised \cup {t}
    /\ UNCHANGED <<env_vars, clock_vars, idle_vars, main_vars, counter_vars,
                   lock_holder, err_printed, final_printed, exited,
                   print_vars>>

NextRm ==
    \/ SubmitNonDirRoot
    \/ PostOrderRoot
    \/ PostOrderWalk
    \/ PostOrderDir
    \/ PostOrderFile
    \/ PostOrderSubmitDir
    \/ ExecutorShutdown
    \/ FinalPrint
    \/ \E t \in DOMAIN tasks : WorkerTake(t)
    \/ \E t \in DOMAIN tasks : CallTypeError(t)
    \/ \E t \in DOMAIN tasks : TaskStart(t)
    \/ \E t \in DOMAIN tasks : RmReturn(t)
    \/ \E t \in DOMAIN tasks : RmRaise(t)
    \/ \E t \in DOMAIN tasks : ErrPrintBegin(t)
    \/ \E t \in DOMAIN tasks : ErrPrintEnd(t)
    \/ \E t \in DOMAIN tasks : OsExit(t)
    \/ \E t \in DOMAIN tasks : CounterRead(t)
    \/ \E t \in DOMAIN tasks : CounterWrite(t)
    \/ \E t \in DOMAIN tasks : BytesRead(t)
    \/ \E t \in DOMAIN tasks : BytesWrite(t)
    \/ \E t \in DOMAIN tasks : ProgressBegin(t)
    \/ \E t \in DOMAIN tasks : ProgressEnd(t)

SpecRm == InitRm /\ [][NextRm]_vars

(***************************************************************************)
(* The traversal of a directory with no entries.                           *)
(***************************************************************************)
\* A alone, with the st_size its filesystem reports for a directory: 0 on
\* some filesystems, the size of its entry table on others.
EmptyTree(p, sz) ==
    [n \in Nodes |->
        IF n = 1 THEN [FileSystem(p)[n] EXCEPT !.size = sz]
        ELSE [FileSystem(p)[n] EXCEPT !.exists = FALSE]]

InitEmpty ==
    /\ platform \in {"posix", "win32"}
    /\ \E sz \in {0, 1} : fs = EmptyTree(platform, sz)
    /\ paths = <<1>>
    /\ pre_order = TRUE
    /\ num_max_threads \in 1..MaxWorkers
    /\ strict_hierarchical_order = TRUE
    /\ print_lock \in BOOLEAN
    /\ InitState /\ InitNoPure /\ InitNoConsumers

NextEmpty ==
    \/ PreOrderRoot
    \/ PreOrderWalk
    \/ PreOrderPrune
    \/ ExecutorShutdown
    \/ FinalPrint
    \/ \E t \in DOMAIN tasks : WorkerTake(t)
    \/ \E t \in DOMAIN tasks : TaskStart(t)
    \/ \E t \in DOMAIN tasks : OpReturn(t)
    \/ \E t \in DOMAIN tasks : OpRaise(t)
    \/ \E t \in DOMAIN tasks : ErrPrintBegin(t)
    \/ \E t \in DOMAIN tasks : ErrPrintEnd(t)
    \/ \E t \in DOMAIN tasks : OsExit(t)
    \/ \E t \in DOMAIN tasks : CounterRead(t)
    \/ \E t \in DOMAIN tasks : CounterWrite(t)
    \/ \E t \in DOMAIN tasks : BytesRead(t)
    \/ \E t \in DOMAIN tasks : BytesWrite(t)
    \/ \E t \in DOMAIN tasks : ProgressBegin(t)
    \/ \E t \in DOMAIN tasks : ProgressEnd(t)

SpecEmpty == InitEmpty /\ [][NextEmpty]_vars

(***************************************************************************)
(* The diff consumer: diff_file on one pair of paths.  A file is the       *)
(* sequence of its bytes; a chunk of 128 KiB is ChunkSize bytes.           *)
(***************************************************************************)
\* The longest file compared.
MaxFileLen == 5

ChunkSize == 2

Bytes == {0, 1}

Files == UNION {[1..n -> Bytes] : n \in 0..MaxFileLen}

\* file.read(128 * 1024) at position pos, counted in chunks: the bytes up to
\* the end of the chunk or of the file.
read(file) ==
    LET from == file.pos * ChunkSize + 1
        to == IF (file.pos + 1) * ChunkSize < Len(file.data)
              THEN (file.pos + 1) * ChunkSize ELSE Len(file.data)
    IN  SubSeq(file.data, from, to)

\* src is a file; dest is missing, a directory, or a file.
InitDiff ==
    /\ platform = "posix" /\ fs = FileSystem(platform)
    /\ paths = <<1>> /\ pre_order = TRUE /\ num_max_threads = 1
    /\ strict_hierarchical_order = TRUE /\ print_lock = FALSE
    /\ InitState /\ InitNoPure /\ InitNoCopy /\ InitNoUpload
    /\ \E data \in Files : src_file = [data |-> data, pos |-> 0]
    /\ \/ \E k \in {"missing", "dir"} :
              dest_file = [kind |-> k, data |-> <<>>, pos |-> 0]
       \/ \E data \in Files :
              dest_file = [kind |-> "file", data |-> data, pos |-> 0]
    /\ diff_pc = "start"
    /\ reports = <<>>

diff_unchanged ==
    UNCHANGED <<env_vars, main_vars, tasks, counter_vars, out_vars,
                clock_vars, pure_vars, cp_vars, scp_vars>>

Report(what) == [what |-> what, reads |-> src_file.pos]

\* if not dest.exists() ... elif not dest.is_file() ...
DiffKind ==
    /\ diff_pc = "start"
    /\ IF dest_file.kind = "missing"
       THEN reports' = Append(reports, Report("DELETED")) /\ diff_pc' = "done"
       ELSE IF dest_file.kind # "file"
       THEN /\ reports' = Append(reports, Report("PROPERTY CHANGED"))
            /\ diff_pc' = "done"
       ELSE diff_pc' = "size" /\ UNCHANGED reports
    /\ UNCHANGED <<src_file, dest_file>>
    /\ diff_unchanged

\* if src.stat().st_size != dest.stat().st_size: report and return.
DiffSize ==
    /\ diff_pc = "size"
    /\ IF Len(src_file.data) # Len(dest_file.data)
       THEN /\ reports' = Append(reports, Report("SIZE CHANGED"))
            /\ diff_pc' = "done"
       ELSE diff_pc' = "loop" /\ UNCHANGED reports
    /\ UNCHANGED <<src_file, dest_file>>
    /\ diff_unchanged

\* A loop body that reports a difference and reads on.
DiffChunkNoBreak ==
    /\ diff_pc = "loop"
    /\ src_file' = [src_file EXCEPT !.pos = @ + 1]
    /\ dest_file' = [dest_file EXCEPT !.pos = @ + 1]
    /\ IF read(src_file) # read(dest_file)
       THEN /\ reports' = Append(reports, Report("CONTENT CHANGED"))
            /\ diff_pc' = IF read(src_file) = <<>> THEN "done" ELSE "loop"
       ELSE /\ diff_pc' = IF read(src_file) = <<>> THEN "done" ELSE "loop"
            /\ UNCHANGED reports
    /\ diff_unchanged

\* One turn of the while loop: a chunk is read from each file; a difference
\* is reported and ends the loop, and so does the end of the file.
DiffChunk ==
    /\ diff_pc = "loop"
    /\ src_file' = [src_file EXCEPT !.pos = @ + 1]
    /\ dest_file' = [dest_file EXCEPT !.pos = @ + 1]
    /\ IF read(src_file) # read(dest_file)
       THEN /\ reports' = Append(reports, Report("CONTENT CHANGED"))
            /\ diff_pc' = "done"
       ELSE /\ diff_pc' = IF read(src_file) = <<>> THEN "done" ELSE "loop"
            /\ UNCHANGED reports
    /\ diff_unchanged

NextDiff ==
    \/ DiffKind
    \/ DiffSize
    \/ DiffChunk

SpecDiff == InitDiff /\ [][NextDiff]_vars

\* The thread that runs diff_file keeps running.
FairSpecDiff == SpecDiff /\ WF_vars(NextDiff)

(***************************************************************************)
(* pretty_time on a whole number of seconds.                               *)
(***************************************************************************)
\* The longest time formatted: one day.
MaxSeconds == 86400

\* format(n / d, ".0f"): the quotient rounded to the nearest integer, a
\* half to the even one.
RoundHalfEven(n, d) ==
    LET q == n \div d
        r == n % d
    IN  IF 2 * r < d THEN q
        ELSE IF 2 * r > d THEN q + 1
        ELSE IF q % 2 = 0 THEN q ELSE q + 1

\* The string returned, by its fields: hours, minutes, seconds and
\* hundredths; "None" when the function falls off its end.
pretty_time(e) ==
    IF e < 60
    THEN [form |-> "SS.ss s", h |-> 0, m |-> 0, s |-> e, cs |-> 0]
    ELSE IF e < 60 * 60
    THEN [form |-> "MM:SS", h |-> 0, m |-> RoundHalfEven(e, 60),
          s |-> e % 60, cs |-> 0]
    ELSE IF e < 60 * 60 * 24
    THEN [form |-> "HH:MM:SS", h |-> RoundHalfEven(e, 60 * 60),
          m |-> RoundHalfEven(e % 60, 60), s |-> (e % 60) % 60, cs |-> 0]
    ELSE [form |-> "None", h |-> 0, m |-> 0, s |-> 0, cs |-> 0]

InitPretty ==
    /\ platform = "posix" /\ fs = FileSystem(platform)
    /\ paths = <<1>> /\ pre_order = TRUE /\ num_max_threads = 1
    /\ strict_hierarchical_order = TRUE /\ print_lock = FALSE
    /\ InitState /\ InitNoRender /\ InitNoProbe /\ InitNoRoot
    /\ InitNoReparse
    /\ InitNoConsumers
    /\ seconds \in 0..MaxSeconds
    /\ pretty = NoTime

\* pretty_time(seconds)
PrettyTime ==
    /\ pretty = NoTime
    /\ pretty' = pretty_time(seconds)
    /\ UNCHANGED <<env_vars, main_vars, tasks, counter_vars, out_vars,
                   clock_vars, render_vars, probe_vars, seconds, root_vars,
                   reparse_vars, app_vars>>

SpecPretty == InitPretty /\ [][PrettyTime]_vars

(***************************************************************************)
(* The loop over paths: the bare drive letter.  A string is the sequence   *)
(* of its characters.                                                      *)
(***************************************************************************)
\* The longest root string.
MaxRootLen == 3

\* Characters that tell the cases of the pattern apart: ASCII letters, a
\* digit, a letter that is not ASCII, the colon, the slash, the newline.
AsciiLetters == {"C", "d"}

Chars == AsciiLetters \cup {"1", "E'", ":", "/", "\n"}

Strings == UNION {[1..n -> Chars] : n \in 0..MaxRootLen}

\* The positions at which ^[a-zA-Z]:$ can end when matched from the start
\* of str: $ matches at the end and just before a newline that ends str.
PatternEnds(str) ==
    IF /\ Len(str) >= 2
       /\ str[1] \in AsciiLetters
       /\ str[2] = ":"
       /\ \/ Len(str) = 2
          \/ Len(str) = 3 /\ str[3] = "\n"
    THEN {2}
    ELSE {}

\* drive_letter_regex.match(path): the pattern matches a prefix.
drive_letter_regex_match(str) == PatternEnds(str) # {}

\* drive_letter_regex.fullmatch(path): the pattern matches all of str.
drive_letter_regex_fullmatch(str) == Len(str) \in PatternEnds(str)

InitRoot ==
    /\ platform = "win32" /\ fs = FileSystem(platform)
    /\ paths = <<1>> /\ pre_order = TRUE /\ num_max_threads = 1
    /\ strict_hierarchical_order = TRUE /\ print_lock = FALSE
    /\ InitState /\ InitNoRender /\ InitNoProbe /\ InitNoFormat
    /\ InitNoReparse
    /\ InitNoConsumers
    /\ root_in \in Strings
    /\ root_path = root_in
    /\ root_pc = "loop"

root_unchanged ==
    UNCHANGED <<env_vars, main_vars, tasks, counter_vars, out_vars,
                clock_vars, render_vars, probe_vars, fmt_vars, root_in,
                reparse_vars, app_vars>>

\* if drive_letter_regex.fullmatch(path) is not None: path += '/'
DriveLetter ==
    /\ root_pc = "loop"
    /\ root_path' = IF drive_letter_regex_fullmatch(root_path)
                    THEN root_path \o <<"/">>
                    ELSE root_path
    /\ root_pc' = "isdir"
    /\ root_unchanged

\* os.path.isdir(path), then the submit or the traversal of path.
RootIsDir ==
    /\ root_pc = "isdir"
    /\ root_pc' = "used"
    /\ UNCHANGED root_path
    /\ root_unchanged

NextRoot ==
    \/ DriveLetter
    \/ RootIsDir

SpecRoot == InitRoot /\ [][NextRoot]_vars

(***************************************************************************)
(* What the claims speak of                                                *)
(***************************************************************************)
TaskIds == DOMAIN tasks

\* The tasks whose user function has been called.
OpStarted(t) == tasks[t].pc \notin {"queued", "wait", "failed"}

\* The tasks whose user function has returned normally.
OpCompleted(t) ==
    tasks[t].pc \in {"inc_read", "inc_write", "bytes_read", "bytes_write",
                     "progress", "printing", "done"}

\* The calls of dir_func and of file_func made on an entry so far.
DirCalls(n) ==
    Cardinality({t \in TaskIds :
                     tasks[t].path = n /\ tasks[t].is_dir /\ OpStarted(t)})

FileCalls(n) ==
    Cardinality({t \in TaskIds :
                     tasks[t].path = n /\ ~tasks[t].is_dir /\ OpStarted(t)})

Classified(n) == from_path(fs[n], win32)

\* The entries of the tree rooted at r: r, and the entries of every
\* directory of the tree.
RECURSIVE InTree(_, _)
InTree(n, r) ==
    \/ n = r
    \/ /\ fs[n].parent # NoNode
       /\ Classified(fs[n].parent) = "DIRECTORY"
       /\ InTree(fs[n].parent, r)

Roots == {paths[i] : i \in DOMAIN paths}

(* C1: pre-order with strict_hierarchical_order: when the user function is
   called on an entry, the call on its parent directory has returned. *)
PreOrderStrict ==
    (pre_order /\ strict_hierarchical_order) =>
        \A t \in TaskIds :
            (OpStarted(t) /\ fs[tasks[t].path].parent # NoNode) =>
                \E u \in TaskIds :
                    /\ tasks[u].path = fs[tasks[t].path].parent
                    /\ tasks[u].is_dir
                    /\ OpCompleted(u)

\* A directory, a file and a link, each a child, have all had their calls.
PreOrderStrictWitness ==
    /\ pre_order /\ strict_hierarchical_order /\ num_max_threads >= 2
    /\ platform = "posix"
    /\ \A n \in {2, 3, 4} : DirCalls(n) + FileCalls(n) = 1
    /\ \E t \in TaskIds : tasks[t].pc = "op"

(* C2: post-order with strict_hierarchical_order: when dir_func is called
   on a directory, the call on each of its entries has returned. *)
PostOrderStrict ==
    (~pre_order /\ strict_hierarchical_order) =>
        \A t \in TaskIds :
            (OpStarted(t) /\ tasks[t].is_dir) =>
                \A n \in Nodes :
                    (fs[n].parent = tasks[t].path) =>
                        \E u \in TaskIds :
                            tasks[u].path = n /\ OpCompleted(u)

\* dir_func runs on the root A while a second worker is free.
PostOrderStrictWitness ==
    /\ ~pre_order /\ strict_hierarchical_order /\ num_max_threads >= 2
    /\ \E t \in TaskIds :
           tasks[t].pc = "op" /\ tasks[t].path = 1 /\ tasks[t].is_dir

(* C3: completeness: when parallel_recursive_apply returns, every entry of
   the tree of a root directory has had exactly one call, dir_func if it is
   a directory and file_func otherwise, and that call has returned. *)
Completeness ==
    mpc = "returned" =>
        \A r \in Roots : \A n \in Nodes :
            (Classified(r) = "DIRECTORY" /\ InTree(n, r)) =>
                /\ DirCalls(n) = (IF Classified(n) = "DIRECTORY" THEN 1 ELSE 0)
                /\ FileCalls(n) = (IF Classified(n) = "DIRECTORY" THEN 0 ELSE 1)
                /\ \A t \in TaskIds : tasks[t].path = n => OpCompleted(t)

CompletenessWitness ==
    /\ mpc = "returned" /\ paths = <<1>>
    /\ \A n \in {1, 2, 3, 4} : DirCalls(n) + FileCalls(n) = 1

\* The tasks whose counter increment, and whose byte increment, has been
\* stored.
Counted(t) ==
    tasks[t].pc \in {"bytes_read", "bytes_write", "progress", "printing",
                     "done"}

BytesCounted(t) ==
    tasks[t].pc \in {"progress", "printing", "done"}

RECURSIVE SumSizes(_)
SumSizes(ts) ==
    IF ts = {} THEN 0
    ELSE LET t == CHOOSE x \in ts : TRUE
         IN fs[tasks[t].path].size + SumSizes(ts \ {t})

(* C4: no lost update: the counters equal the number of tasks that have
   stored their increment, and the byte counter the sum of the sizes these
   tasks captured. *)
NoLostUpdate ==
    /\ num_done_files + num_done_dirs =
           Cardinality({t \in TaskIds : Counted(t)})
    /\ num_done_bytes = SumSizes({t \in TaskIds : BytesCounted(t)})

(* C5: an exception of a user function ends the process with status 1: it
   never reaches the caller of parallel_recursive_apply and is never just
   kept in the task's future; the diagnostic is printed first, holding the
   lock when there is one; and the exit is reached. *)
UserOpFaultExits ==
    /\ [](op_raised # {} => mpc # "returned")
    /\ [](op_raised \cap fut_done = {})
    /\ [](exited => \E t \in op_raised : tasks[t].path \in err_printed)
    /\ [](\A t \in TaskIds :
              (print_lock /\ tasks[t].pc = "err_print") => lock_holder = t)
    /\ (op_raised # {}) ~> exited

\* The process has exited after a diagnostic printed under the lock.
UserOpFaultExitsWitness ==
    /\ exited /\ print_lock /\ num_max_threads >= 2
    /\ err_printed # {}
    /\ num_done_files + num_done_dirs >= 1

CompletedTasks == {t \in TaskIds : OpCompleted(t)}

(* C6, as claimed: from the moment a user function has raised, no other
   user function returns and no counter changes. *)
NoCompletionAfterRaise ==
    [][op_raised # {} =>
           /\ CompletedTasks' = CompletedTasks
           /\ UNCHANGED counter_vars]_vars

(* C6, amended: from the moment os._exit(1) has ended the process, no user
   function returns and no counter changes. *)
NoCompletionAfterExit ==
    [][exited =>
           /\ CompletedTasks' = CompletedTasks
           /\ UNCHANGED counter_vars]_vars

\* The exit cut off another worker inside a user function.
NoCompletionAfterExitWitness ==
    /\ exited
    /\ \E t \in TaskIds : tasks[t].pc = "op"

\* The links the claim speaks of: they point at a directory.
IsDirLink(n) ==
    /\ fs[n].target_dir
    /\ fs[n].mode = "LNK" \/ fs[n].junction \/ fs[n].tag = "LX_SYMLINK"

(* C7: a link to a directory found in a walked directory gets file_func,
   once, and never dir_func; it is never listed and no entry below it gets
   a task. *)
NoDescentThroughLinks ==
    \A n \in Nodes :
        (/\ IsDirLink(n)
         /\ fs[n].parent # NoNode
         /\ \E r \in Roots : InTree(n, r)) =>
            /\ DirCalls(n) = 0
            /\ FileCalls(n) <= 1
            /\ mpc = "returned" => FileCalls(n) = 1
            /\ mpc \in {"pre_dirs", "pre_files", "post_dirs"} => parent # n
            /\ \A i \in DOMAIN gen_stack : gen_stack[i].top # n
            /\ \A t \in TaskIds : ~Below(tasks[t].path, n)

\* A junction and a WSL symlink have each had their one file_func call.
NoDescentThroughLinksWitness ==
    /\ mpc = "returned" /\ platform = "win32"
    /\ FileCalls(4) = 1 /\ FileCalls(3) = 1

(* C8: every path that is listed, and every path dir_func is submitted for,
   is classified DIRECTORY by FileType.from_path. *)
DescentGatedByClassifier ==
    /\ mpc \in {"pre_dirs", "pre_files", "post_dirs"} =>
           Classified(parent) = "DIRECTORY"
    /\ \A i \in DOMAIN gen_stack : Classified(gen_stack[i].top) = "DIRECTORY"
    /\ \A t \in TaskIds : tasks[t].is_dir =>
           Classified(tasks[t].path) = "DIRECTORY"

(* C9: when parallel_recursive_apply returns, a root that is no directory
   has had exactly one file_func call and no dir_func call, and
   num_done_files counts it. *)
NonDirRootFileOp ==
    mpc = "returned" =>
        \A r \in Roots :
            ~os_path_isdir(fs[r]) =>
                /\ FileCalls(r) = 1
                /\ DirCalls(r) = 0
                /\ num_done_files >= 1

(* C10: every task waits only for tasks submitted before it, and the run
   ends: every task is done or failed, no worker is left blocked in wait and
   parallel_recursive_apply returns, or the process has exited. *)
DeadlockFree ==
    /\ [](\A t \in TaskIds : \A d \in tasks[t].deps : d < t)
    /\ <>(\/ exited
          \/ /\ mpc = "returned"
             /\ \A t \in TaskIds : tasks[t].pc \in {"done", "failed"})

\* Every worker thread is taken and one of them is blocked on a predecessor.
DeadlockFreeWitness ==
    /\ strict_hierarchical_order
    /\ ~ThreadFree
    /\ \E t \in TaskIds : tasks[t].pc = "wait" /\ ~wait(tasks[t].deps)

(* C11: of the tasks submitted for all the roots, at most num_max_threads
   are in progress (dequeued and not yet done), those blocked in
   wait(futures) included. *)
PoolBound ==
    Cardinality({t \in TaskIds :
                    tasks[t].pc \notin {"queued", "done", "failed"}})
        <= num_max_threads

\* Both threads are taken, one by a task blocked on its parent's, while
\* other tasks are queued.
PoolBoundWitness ==
    /\ num_max_threads = 2 /\ Cardinality(InProgress) = 2
    /\ Queue # {}
    /\ \E t \in TaskIds : tasks[t].pc = "wait" /\ ~wait(tasks[t].deps)
    /\ \E t \in TaskIds : tasks[t].pc = "op"

(* C12: an entry that is gone when its task would be created is skipped:
   no task is created for an entry that does not exist, no exception of
   the walk reaches the caller, and when parallel_recursive_apply returns
   every entry still there has had its one call. *)
MissingEntriesSkipped ==
    /\ [][\A t \in DOMAIN tasks' \ DOMAIN tasks :
              fs[tasks'[t].path].exists]_vars
    /\ [](mpc \notin {"unwinding", "raised"})
    /\ [](mpc = "returned" =>
              \A r \in Roots : \A n \in Nodes :
                  (/\ Classified(r) = "DIRECTORY"
                   /\ fs[n].exists /\ InTree(n, r)) =>
                      DirCalls(n) + FileCalls(n) = 1)

\* The same, for the pre-order walk alone.
MissingEntriesSkippedPreOrder ==
    /\ [][pre_order =>
              \A t \in DOMAIN tasks' \ DOMAIN tasks :
                  fs[tasks'[t].path].exists]_vars
    /\ [](pre_order => mpc \notin {"unwinding", "raised"})
    /\ [](pre_order /\ mpc = "returned" =>
              \A r \in Roots : \A n \in Nodes :
                  (/\ Classified(r) = "DIRECTORY"
                   /\ fs[n].exists /\ InTree(n, r)) =>
                      DirCalls(n) + FileCalls(n) = 1)

(* C13: the size a task adds is the entry's lstat size, taken before the
   user function is called; a task whose function raised never reaches the
   accounting; and every store to a counter is made by a task whose
   function has returned normally: the value it loaded plus one for
   num_done_dirs or num_done_files, plus the size it took for
   num_done_bytes. *)
CountersAfterOp ==
    /\ [](\A t \in TaskIds :
              OpStarted(t) => tasks[t].size = fs[tasks[t].path].size)
    /\ [](\A t \in op_raised :
              tasks[t].pc \in {"except", "err_print", "os_exit"})
    /\ [][counter_vars' # counter_vars =>
              \E t \in TaskIds :
                  /\ OpCompleted(t) /\ t \notin op_raised
                  /\ \/ /\ tasks[t].pc = "inc_write" /\ tasks[t].is_dir
                        /\ num_done_dirs' = tasks[t].tmp + 1
                        /\ UNCHANGED <<num_done_files, num_done_bytes>>
                     \/ /\ tasks[t].pc = "inc_write" /\ ~tasks[t].is_dir
                        /\ num_done_files' = tasks[t].tmp + 1
                        /\ UNCHANGED <<num_done_dirs, num_done_bytes>>
                     \/ /\ tasks[t].pc = "bytes_write"
                        /\ num_done_bytes' = tasks[t].tmp + tasks[t].size
                        /\ UNCHANGED <<num_done_dirs, num_done_files>>]_vars

\* A file of two bytes has been counted while another task's function has
\* raised.
CountersAfterOpWitness ==
    /\ op_raised # {}
    /\ num_done_files >= 1 /\ num_done_bytes >= 2
    /\ \E t \in TaskIds : tasks[t].pc = "progress" /\ tasks[t].size = 2

(* C14: when a call of parallel_recursive_apply returns, the first or a
   later one, num_done_files + num_done_dirs is the number of entries this
   call has counted. *)
CountersInitialised ==
    mpc = "returned" =>
        num_done_files + num_done_dirs =
            Cardinality({t \in TaskIds : Counted(t)})

(* C15: no step lowers a counter. *)
CountersMonotonic ==
    [][/\ num_done_files' >= num_done_files
       /\ num_done_dirs' >= num_done_dirs
       /\ num_done_bytes' >= num_done_bytes]_vars

\* The same, when only one worker thread runs.
CountersMonotonicOneThread ==
    [][num_max_threads = 1 =>
           /\ num_done_files' >= num_done_files
           /\ num_done_dirs' >= num_done_dirs
           /\ num_done_bytes' >= num_done_bytes]_vars

(* C16: without strict_hierarchical_order every task is submitted with no
   future to wait on, and a task a worker has dequeued can always go on to
   its call. *)
NonStrictNoDeps ==
    ~strict_hierarchical_order =>
        \A t \in TaskIds :
            /\ tasks[t].deps = {}
            /\ Alive /\ tasks[t].pc = "wait" =>
                   ENABLED (TaskStart(t) \/ CallTypeError(t))

\* Pre-order: a child's task is done while its parent's function has not
\* returned.
NonStrictNoDepsWitness ==
    /\ ~strict_hierarchical_order /\ pre_order /\ num_max_threads >= 2
    /\ \E t, u \in TaskIds :
           /\ tasks[u].is_dir /\ fs[tasks[t].path].parent = tasks[u].path
           /\ tasks[t].pc = "done"
           /\ tasks[u].pc \in {"wait", "op"}

\* Post-order: a directory's task is done while the function of one of its
\* entries has not returned.
NonStrictPostOrderWitness ==
    /\ ~strict_hierarchical_order /\ ~pre_order /\ num_max_threads >= 2
    /\ \E t, u \in TaskIds :
           /\ tasks[u].is_dir /\ fs[tasks[t].path].parent = tasks[u].path
           /\ tasks[u].pc = "done"
           /\ tasks[t].pc \in {"wait", "op"}

\* The lines of the renderer on standard output: regular and forced.
Rendered == {i \in DOMAIN out : out[i].kind \in {"progress", "final"}}

Regular == {i \in DOMAIN out : out[i].kind = "progress"}

\* A window of 100 ms holds both lines.
SameWindow(i, j) ==
    /\ out[i].time - out[j].time < Interval
    /\ out[j].time - out[i].time < Interval

(* C17: no window of 100 ms holds two regular lines of the renderer, nor
   three of its lines; a line's time is the time.time() its call read. *)
Throttle ==
    /\ \A i, j \in Regular : i # j => ~SameWindow(i, j)
    /\ \A i, j, k \in Rendered :
           i < j /\ j < k =>
               ~(SameWindow(i, j) /\ SameWindow(j, k) /\ SameWindow(i, k))

\* The same, when the calls of the renderer are serialised: by the caller's
\* print_lock, or because only one worker thread runs.
ThrottleSerialised == (print_lock \/ num_max_threads = 1) => Throttle

\* A thread that holds the lock is never stopped by it.
NoSelfDeadlock ==
    \A t \in TaskIds :
        (Alive /\ lock_holder = t) =>
            ENABLED (ErrPrintEnd(t) \/ ProgressEnd(t))

(* C18: with a print_lock every line written to standard output, the final
   forced progress line included, is written by a thread holding the lock,
   and no thread acquires the lock while it holds it. *)
PrintLockHeld ==
    /\ print_lock => \A i \in DOMAIN out : out[i].locked
    /\ NoSelfDeadlock

\* The same for the lines of the worker threads alone.
WorkerPrintsLocked ==
    /\ print_lock =>
           \A i \in DOMAIN out : out[i].kind # "final" => out[i].locked
    /\ NoSelfDeadlock

(* C19: for every terminal width, prefix and path of glyphs of width 1 or
   2, the line print_progress_inplace writes is no wider than the terminal. *)
WidthSafe == line # <<>> => wcswidth(line) <= terminal_width

\* The same, when the prefix leaves the path three columns or more, or the
\* whole path fits.
WidthSafeRoomy ==
    (/\ line # <<>>
     /\ \/ wcswidth(message) > terminal_width
        \/ wcswidth(message) + 3 <= terminal_width
        \/ wcswidth(message) + wcswidth(path_text) <= terminal_width)
    => wcswidth(line) <= terminal_width

\* A line that fits is padded to the full width of the terminal.
PaddedToWidth ==
    (line # <<>> /\ wcswidth(line) <= terminal_width
     /\ wcswidth(message) <= terminal_width)
    => wcswidth(line) = terminal_width

(* C20: for every combination of attributes FileType.from_path returns the
   kind of the ordered decision table (not found, symlink, readable as a
   link, directory, regular file with its reparse tag on NT, device bits,
   anything else), and it returns one of the eight kinds, never raising. *)
ClassificationCorrect ==
    LET table ==
            IF ~probe.exists THEN "NONEXISTENT"
            ELSE IF probe.mode = "LNK" THEN "SYMLINK"
            ELSE IF probe.junction THEN "JUNCTION"
            ELSE IF probe.mode = "DIR" THEN "DIRECTORY"
            ELSE IF probe.mode = "REG" THEN
                CASE win32 /\ probe.tag = "LX_SYMLINK" -> "WSL_SYMLINK"
                  [] win32 /\ probe.tag = "DEDUP" -> "FILE"
                  [] win32 /\ probe.tag \notin {"NONE", "LX_SYMLINK", "DEDUP"}
                         -> "UNKNOWN"
                  [] OTHER -> "FILE"
            ELSE IF probe.mode \in {"BLK", "CHR", "FIFO", "SOCK"}
                 THEN "DEVICE"
            ELSE "UNKNOWN"
    IN  kind # "NONE" => (kind \in FileType /\ kind = table)

\* The same for every entry but a regular file on NT whose reparse tag is
\* not a member of the enum ReparseTag.
ClassificationCorrectListed ==
    \/ /\ platform = "win32" /\ probe.exists /\ probe.mode = "REG"
       /\ ~probe.junction /\ probe.tag = "UNLISTED"
    \/ ClassificationCorrect

\* Every copy_file has returned.
CopyDone == jobs # <<>> /\ \A j \in DOMAIN jobs : jobs[j].pc = "done"

\* The destination file of job j was written by a byte copy.
ByteCopied(j) == dest[j] = j

(* C21: when all copies are done, two sources that are hard links to one
   inode have two destination entries sharing one inode: one written by a
   byte copy, the other created as a hard link to it. *)
HardlinkDedup ==
    CopyDone =>
        \A j, k \in DOMAIN jobs :
            (j # k /\ Hardlinked(jobs[j].stat, jobs[k].stat)) =>
                /\ dest[j] # NoJob /\ dest[k] # NoJob
                /\ dest[j] = dest[k]
                /\ ByteCopied(j) # ByteCopied(k)

\* The same when the pool has one thread and the sources are on one device.
HardlinkDedupOneThread ==
    (/\ num_max_threads = 1
     /\ \A j, k \in DOMAIN jobs : jobs[j].stat.dev = jobs[k].stat.dev)
    => HardlinkDedup

(* C22: a destination entry shares the inode of another destination only
   when their sources have the same device id and the same inode number. *)
KeyedByDeviceAndInode ==
    \A j, k \in DOMAIN jobs :
        (j # k /\ dest[j] # NoJob /\ dest[j] = dest[k]) =>
            Hardlinked(jobs[j].stat, jobs[k].stat)

\* The places a connection is in: the queue, a worker's local, closed.
InPool(c) == Cardinality({i \in DOMAIN connections : connections[i] = c})

HeldBy(c) == {o \in DOMAIN ops : ops[o].sftp = c}

(* C23: each of the num_max_threads connections is at every moment in the
   pool, or held by exactly one upload op between its get and its put (also
   after an OSError of the SFTP call), or closed after the traversal; and a
   worker that reaches get or put is never blocked. *)
ConnectionPool ==
    ops # <<>> =>
        /\ \A c \in 1..num_max_threads :
               InPool(c) + Cardinality(HeldBy(c))
                   + (IF c \in closed THEN 1 ELSE 0) = 1
        /\ \A o \in DOMAIN ops :
               /\ ops[o].sftp # NoConnection <=> ops[o].pc \in {"call", "put"}
               /\ (Alive /\ ops[o].pc = "get") => ENABLED ScpGet(o)
               /\ (Alive /\ ops[o].pc = "put") => ENABLED ScpPut(o)
        /\ (Alive /\ \A o \in DOMAIN ops : ops[o].pc = "done"
                  /\ Cardinality(closed) < num_max_threads)
               => ENABLED ScpClose

\* An op has put its connection back after an OSError, and another op is
\* using that connection.
ConnectionPoolWitness ==
    \E o, q \in DOMAIN ops :
        /\ ops[o].pc = "done" /\ ops[o].raised
        /\ ops[q].pc = "call" /\ ops[q].sftp = ops[o].got
        /\ num_max_threads = MaxWorkers

\* The roots given that are directories or plain files.
PlainRoots == {r \in Roots : FileSystem(platform)[r].mode \in {"DIR", "REG"}}

\* rmdir is attempted on a directory only when the delete of each of its
\* entries has returned and the entry is gone.
RmChildrenFirst ==
    \A t \in TaskIds :
        (OpStarted(t) /\ tasks[t].is_dir) =>
            \A n \in Nodes :
                (fs[n].parent = tasks[t].path) =>
                    /\ \E u \in TaskIds : tasks[u].path = n /\ OpCompleted(u)
                    /\ ~fs[n].exists

(* C24: recursive delete: rmdir of a directory is attempted only after the
   deletes of all its entries have completed, and when parallel_rm_r returns
   normally every root given, directory or plain file, no longer exists. *)
RmRemovesRoots ==
    /\ RmChildrenFirst
    /\ mpc = "returned" => \A r \in PlainRoots : ~fs[r].exists

\* The same for the roots that are directories.
RmRemovesDirectoryRoots ==
    /\ RmChildrenFirst
    /\ mpc = "returned" =>
           \A r \in PlainRoots :
               FileSystem(platform)[r].mode = "DIR" => ~fs[r].exists

\* parallel_rm_r has returned and the tree of A is gone.
RmRemovesDirectoryRootsWitness ==
    /\ mpc = "returned" /\ paths = <<1>> /\ num_max_threads >= 2
    /\ \A n \in {1, 2, 3, 4} : ~fs[n].exists

\* One call of dir_func, on the root, and no call of file_func.
EmptyTreeCalls ==
    /\ DirCalls(1) = 1
    /\ \A t \in TaskIds : tasks[t].is_dir /\ tasks[t].path = 1

(* C25: the traversal of a root directory with no entries, pre-order and
   strict, calls dir_func once on the root and file_func never, and ends
   with the counters dirs = 1, files = 0, bytes = 0. *)
EmptyTreeCounters ==
    mpc = "returned" =>
        /\ EmptyTreeCalls
        /\ num_done_dirs = 1 /\ num_done_files = 0
        /\ num_done_bytes = 0

\* The same, with the byte counter at the st_size of the directory.
EmptyTreeCountersWithSize ==
    mpc = "returned" =>
        /\ EmptyTreeCalls
        /\ num_done_dirs = 1 /\ num_done_files = 0
        /\ num_done_bytes = fs[1].size

\* The chunks in which two files of one size differ.
DifferingChunks ==
    {c \in 0..MaxFileLen :
        read([data |-> src_file.data, pos |-> c])
            # read([data |-> dest_file.data, pos |-> c])}

\* What diff_file has to print for two files, with the number of chunks it
\* has read of each when it prints.
DiffExpected ==
    IF Len(src_file.data) # Len(dest_file.data)
    THEN <<[what |-> "SIZE CHANGED", reads |-> 0]>>
    ELSE IF DifferingChunks # {}
    THEN <<[what |-> "CONTENT CHANGED",
            reads |-> CHOOSE c \in DifferingChunks :
                          \A d \in DifferingChunks : c <= d]>>
    ELSE <<>>

(* C26: diff of two files: a size difference is reported alone and without
   reading; for equal sizes CONTENT CHANGED is reported once, at the first
   differing chunk wherever it lies, and never for identical content; and
   the chunk loop always terminates. *)
DiffFile ==
    /\ [](dest_file.kind = "file" =>
            /\ Len(reports) <= 1
            /\ diff_pc = "done" => reports = DiffExpected
            /\ reports # <<>> => reports = DiffExpected)
    /\ <>(diff_pc = "done")

\* Two files of one size that differ past the first chunk only have been
\* compared.
DiffFileWitness ==
    /\ diff_pc = "done" /\ dest_file.kind = "file"
    /\ Len(src_file.data) = Len(dest_file.data)
    /\ read([data |-> src_file.data, pos |-> 0])
           = read([data |-> dest_file.data, pos |-> 0])
    /\ reports # <<>> /\ reports[1].what = "CONTENT CHANGED"
    /\ reports[1].reads >= 1

(* C27: for a whole number of seconds e, pretty_time gives SS.ss s below a
   minute, MM:SS with MM = e div 60 and SS = e mod 60 below an hour, and
   HH:MM:SS with HH = e div 3600, MM = (e div 60) mod 60 and SS = e mod 60
   below a day. *)
ElapsedFormat ==
    pretty # NoTime =>
        /\ seconds < 60 =>
               /\ pretty.form = "SS.ss s"
               /\ pretty.s = seconds /\ pretty.cs = 0
        /\ (60 <= seconds /\ seconds < 3600) =>
               /\ pretty.form = "MM:SS"
               /\ pretty.m = seconds \div 60
               /\ pretty.s = seconds % 60
        /\ (3600 <= seconds /\ seconds < 86400) =>
               /\ pretty.form = "HH:MM:SS"
               /\ pretty.h = seconds \div 3600
               /\ pretty.m = (seconds \div 60) % 60
               /\ pretty.s = seconds % 60

\* The same for the form of the string and its field of seconds.
ElapsedFormatSeconds ==
    pretty # NoTime =>
        /\ seconds < 60 =>
               /\ pretty.form = "SS.ss s"
               /\ pretty.s = seconds /\ pretty.cs = 0
        /\ (60 <= seconds /\ seconds < 3600) =>
               /\ pretty.form = "MM:SS"
               /\ pretty.s = seconds % 60
        /\ (3600 <= seconds /\ seconds < 86400) =>
               /\ pretty.form = "HH:MM:SS"
               /\ pretty.s = seconds % 60

(* C28: a root string that is exactly one ASCII letter followed by a colon
   is given a trailing slash before it is tested with isdir and traversed;
   every other root string is passed on unchanged. *)
DriveLetterNormalised ==
    root_pc \in {"isdir", "used"} =>
        root_path =
            IF /\ Len(root_in) = 2
               /\ root_in[1] \in AsciiLetters
               /\ root_in[2] = ":"
            THEN root_in \o <<"/">>
            ELSE root_in

\* A bare drive letter has been rewritten and used.
DriveLetterNormalisedWitness ==
    /\ root_pc = "used"
    /\ root_in = <<"C", ":">>
    /\ root_path = <<"C", ":", "/">>

(***************************************************************************)
(* get_reparse_info on a symlink, a junction and an LX symlink             *)
(***************************************************************************)
MaxTargetLen == 2

\* Code points of a link target: "a"; e with acute accent (U+00E9); a CJK
\* ideograph whose two UTF-16 bytes are both below 128 (U+4E2D); one
\* outside the basic plane (U+1F600).
CodePoints == {97, 233, 20013, 128512}

Targets == UNION {[1..n -> CodePoints] : n \in 1..MaxTargetLen}

LinkKinds == {"symlink", "junction", "lx_symlink"}

\* The union inside REPARSE_DATA_BUFFER, scaled to the targets: room for the
\* largest header, two names of four bytes a code point, and zero bytes
\* after them (the real buffer is larger than any payload the call returns).
MAXIMUM_REPARSE_DATA_BUFFER_SIZE == 12 + 8 * MaxTargetLen + 4

\* What the file system stores: the encodings of one code point.
utf_16_le(cp) ==
    IF cp < 65536 THEN <<cp % 256, cp \div 256>>
    ELSE LET v == cp - 65536
             hi == 55296 + (v \div 1024)
             lo == 56320 + (v % 1024)
         IN  <<hi % 256, hi \div 256, lo % 256, lo \div 256>>

utf_8(cp) ==
    IF cp < 128 THEN <<cp>>
    ELSE IF cp < 2048 THEN <<192 + (cp \div 64), 128 + (cp % 64)>>
    ELSE IF cp < 65536 THEN
        <<224 + (cp \div 4096), 128 + ((cp \div 64) % 64), 128 + (cp % 64)>>
    ELSE <<240 + (cp \div 262144), 128 + ((cp \div 4096) % 64),
           128 + ((cp \div 64) % 64), 128 + (cp % 64)>>

RECURSIVE encode(_, _)
encode(str, encoding) ==
    IF str = <<>> THEN <<>>
    ELSE (IF encoding = "utf-16" THEN utf_16_le(Head(str))
          ELSE utf_8(Head(str))) \o encode(Tail(str), encoding)

USHORT(n) == <<n % 256, (n \div 256) % 256>>

DWORD(n) == USHORT(n % 65536) \o USHORT(n \div 65536)

Zeros(n) == [i \in 1..n |-> 0]

\* The bytes FSCTL_GET_REPARSE_POINT writes into a zeroed buffer for a link
\* whose target was stored as given; print_first is the order of the two
\* names in PathBuffer.
ReparseData(k, target, print_first) ==
    LET name == encode(target, "utf-16")
        n == Len(name)
        offsets == IF print_first
                   THEN USHORT(n) \o USHORT(n) \o USHORT(0) \o USHORT(n)
                   ELSE USHORT(0) \o USHORT(n) \o USHORT(n) \o USHORT(n)
    IN  IF k = "symlink" THEN offsets \o DWORD(1) \o name \o name
        ELSE IF k = "junction" THEN offsets \o name \o name
        ELSE DWORD(2) \o encode(target, "utf-8")

TagOf(k) ==
    IF k = "symlink" THEN "SYMLINK"
    ELSE IF k = "junction" THEN "MOUNT_POINT"
    ELSE "LX_SYMLINK"

\* Reading the fields of a structure laid over the union's bytes.
ReadUSHORT(bytes, offset) == bytes[offset + 1] + 256 * bytes[offset + 2]

\* A c_byte is signed: slicing an array of c_byte gives Python ints in
\* -128..127.
c_byte(b) == IF b >= 128 THEN b - 256 ELSE b

\* PathBuffer[lo:hi], a list of ints
Slice(bytes, lo, hi) ==
    LET part == SubSeq(bytes, lo + 1, hi)
    IN  [i \in 1..Len(part) |-> c_byte(part[i])]

Returned(v) == [raised |-> "none", value |-> v]

Raised(e) == [raised |-> e, value |-> <<>>]

\* bytes.find(b"\x00")
RECURSIVE find_nul(_, _)
find_nul(bytes, i) ==
    IF i > Len(bytes) THEN -1
    ELSE IF bytes[i] = 0 THEN i - 1
    ELSE find_nul(bytes, i + 1)

\* The code points of well-formed UTF-16 in little-endian order; -1 stands
\* for a sequence the decoder rejects.
RECURSIVE utf_16_units(_)
utf_16_units(bytes) ==
    IF bytes = <<>> THEN <<>>
    ELSE IF Len(bytes) < 2 THEN <<-1>>
    ELSE LET u == bytes[1] + 256 * bytes[2]
         IN  IF u \in 55296..56319 THEN
                 IF Len(bytes) >= 4
                    /\ (bytes[3] + 256 * bytes[4]) \in 56320..57343
                 THEN <<65536 + (u - 55296) * 1024
                          + (bytes[3] + 256 * bytes[4] - 56320)>>
                      \o utf_16_units(SubSeq(bytes, 5, Len(bytes)))
                 ELSE <<-1>>
             ELSE IF u \in 56320..57343 THEN <<-1>>
             ELSE <<u>> \o utf_16_units(Tail(Tail(bytes)))

Continuation(b) == b \in 128..191

RECURSIVE utf_8_points(_)
utf_8_points(bytes) ==
    IF bytes = <<>> THEN <<>>
    ELSE LET b == bytes[1]
             n == Len(bytes)
         IN  IF b < 128 THEN <<b>> \o utf_8_points(Tail(bytes))
             ELSE IF b \in 194..223 /\ n >= 2 /\ Continuation(bytes[2]) THEN
                 <<(b - 192) * 64 + (bytes[2] - 128)>>
                 \o utf_8_points(SubSeq(bytes, 3, n))
             ELSE IF b \in 224..239 /\ n >= 3 /\ Continuation(bytes[2])
                     /\ Continuation(bytes[3]) THEN
                 <<(b - 224) * 4096 + (bytes[2] - 128) * 64
                     + (bytes[3] - 128)>>
                 \o utf_8_points(SubSeq(bytes, 4, n))
             ELSE IF b \in 240..244 /\ n >= 4 /\ Continuation(bytes[2])
                     /\ Continuation(bytes[3]) /\ Continuation(bytes[4]) THEN
                 <<(b - 240) * 262144 + (bytes[2] - 128) * 4096
                     + (bytes[3] - 128) * 64 + (bytes[4] - 128)>>
                 \o utf_8_points(SubSeq(bytes, 5, n))
             ELSE <<-1>>

\* bytes(ints).decode(encoding): bytes() raises ValueError for an int
\* outside range(0, 256); a byte-order mark cannot reach the decoder of
\* "utf-16" without raising there, so what arrives is read little-endian.
bytes_decode(ints, encoding) ==
    IF \E i \in 1..Len(ints) : ints[i] \notin 0..255
    THEN Raised("ValueError")
    ELSE LET points == IF encoding = "utf-16" THEN utf_16_units(ints)
                       ELSE utf_8_points(ints)
         IN  IF \E i \in 1..Len(points) : points[i] = -1
             THEN Raised("UnicodeDecodeError")
             ELSE Returned(points)

\* The Python object that reading a structure-typed field creates: a new
\* object over the same bytes each time, made without calling __init__, so
\* it has only the attributes of its class.
FieldObject(type, bytes) ==
    [type |-> type, attrs |-> {}, SubstituteNameLength |-> 0,
     buffer |-> bytes]

\* set_substitute_name_length(value) on one such object
set_substitute_name_length(obj, value) ==
    [obj EXCEPT !.attrs = @ \cup {"SubstituteNameLength"},
                !.SubstituteNameLength = value]

\* SymbolicLinkReparseBufferType.substitute_name (PathBuffer after twelve
\* bytes of header), MountPointReparseBufferType.substitute_name (after
\* eight), LxSymlinkReparseBufferType.substitute_name (after four).
substitute_name_of(obj) ==
    LET header == IF obj.type = "SymbolicLinkReparseBuffer" THEN 12
                  ELSE IF obj.type = "MountPointReparseBuffer" THEN 8
                  ELSE 4
        PathBuffer == SubSeq(obj.buffer, header + 1, Len(obj.buffer))
    IN  IF obj.type \in {"SymbolicLinkReparseBuffer",
                         "MountPointReparseBuffer"}
        THEN LET SubstituteNameOffset == ReadUSHORT(obj.buffer, 0)
                 SubstituteNameLength == ReadUSHORT(obj.buffer, 2)
             IN  bytes_decode(Slice(PathBuffer, SubstituteNameOffset,
                                    SubstituteNameOffset
                                    + SubstituteNameLength), "utf-16")
        ELSE IF "SubstituteNameLength" \notin obj.attrs
        THEN LET nul == find_nul(PathBuffer, 1)
                 end == IF nul = -1 THEN Len(PathBuffer) - 1 ELSE nul
             IN  bytes_decode(SubSeq(PathBuffer, 1, end), "utf-8")
        ELSE bytes_decode(SubSeq(PathBuffer, 1, obj.SubstituteNameLength),
                          "utf-8")

InitReparse ==
    /\ platform = "win32" /\ fs = FileSystem(platform)
    /\ paths = <<1>> /\ pre_order = TRUE /\ num_max_threads = 1
    /\ strict_hierarchical_order = TRUE /\ print_lock = FALSE
    /\ InitState /\ InitNoRender /\ InitNoProbe /\ InitNoFormat
    /\ InitNoRoot /\ InitNoConsumers
    /\ link_kind \in LinkKinds
    /\ link_target \in Targets
    /\ data_buffer = NoBuffer
    /\ payload = NoPayload
    /\ substitute_name = NoName
    /\ reparse_pc = "call"

reparse_unchanged ==
    UNCHANGED <<env_vars, main_vars, tasks, counter_vars, out_vars,
                clock_vars, render_vars, probe_vars, fmt_vars, root_vars,
                link_kind, link_target, app_vars>>

\* data_buffer = REPARSE_DATA_BUFFER(); DeviceIoControl(...)
DeviceIoControl ==
    /\ reparse_pc = "call"
    /\ \E print_first \in BOOLEAN :
         LET data == ReparseData(link_kind, link_target, print_first)
         IN  data_buffer' =
                 [ReparseTag |-> TagOf(link_kind),
                  ReparseDataLength |-> Len(data),
                  ReparseBuffer |->
                      data \o Zeros(MAXIMUM_REPARSE_DATA_BUFFER_SIZE
                                    - Len(data))]
    /\ reparse_pc' = "tag"
    /\ UNCHANGED <<payload, substitute_name>>
    /\ reparse_unchanged

\* The branches on the tag: each return reads the field of the union anew;
\* the LX branch first sets the length on the object of an earlier read.
ReturnPayload ==
    /\ reparse_pc = "tag"
    /\ LET tag == data_buffer.ReparseTag
           bytes == data_buffer.ReparseBuffer
       IN  IF tag = "SYMLINK"
           THEN payload' = FieldObject("SymbolicLinkReparseBuffer", bytes)
           ELSE IF tag = "MOUNT_POINT"
           THEN payload' = FieldObject("MountPointReparseBuffer", bytes)
           ELSE LET set == set_substitute_name_length(
                               FieldObject("LxSymlinkReparseBuffer", bytes),
                               data_buffer.ReparseDataLength - 4)
                IN  payload' = FieldObject("LxSymlinkReparseBuffer", bytes)
    /\ reparse_pc' = "returned"
    /\ UNCHANGED <<data_buffer, substitute_name>>
    /\ reparse_unchanged

\* The caller reads payload.substitute_name.
SubstituteName ==
    /\ reparse_pc = "returned"
    /\ substitute_name' = substitute_name_of(payload)
    /\ reparse_pc' = "named"
    /\ UNCHANGED <<data_buffer, payload>>
    /\ reparse_unchanged

NextReparse == DeviceIoControl \/ ReturnPayload \/ SubstituteName

SpecReparse == InitReparse /\ [][NextReparse]_vars

\* The name read equals the target the link was created with.
NameIsTarget == substitute_name = Returned(link_target)

\* Every byte of the target's UTF-16 form is below 128.
LowBytes(target) ==
    \A i \in 1..Len(encode(target, "utf-16")) :
        encode(target, "utf-16")[i] < 128

\* C29: for a symlink, a junction and an LX symlink the substitute_name of
\* the payload get_reparse_info returns is the target given at creation,
\* whatever its characters, and the payload of an LX symlink carries the
\* length ReparseDataLength - 4 that cuts its name.
ReparseRoundTrip ==
    reparse_pc = "named" =>
        /\ NameIsTarget
        /\ link_kind = "lx_symlink" =>
             /\ "SubstituteNameLength" \in payload.attrs
             /\ payload.SubstituteNameLength
                    = data_buffer.ReparseDataLength - 4

\* The name of an LX symlink, and of a symlink or junction whose UTF-16
\* bytes are all below 128, is the target.
ReparseRoundTripLowBytes ==
    (/\ reparse_pc = "named"
     /\ link_kind = "lx_symlink" \/ LowBytes(link_target))
        => NameIsTarget

\* A symlink or junction with a byte of 128 or more in its name: reading
\* substitute_name raises ValueError.
ReparseHighByteRaises ==
    (/\ reparse_pc = "named"
     /\ link_kind # "lx_symlink"
     /\ ~LowBytes(link_target))
        => substitute_name = Raised("ValueError")

\* The payload returned for an LX symlink has no length attribute.
LxLengthNotCarried ==
    (reparse_pc \in {"returned", "named"} /\ link_kind = "lx_symlink")
        => "SubstituteNameLength" \notin payload.attrs

(***************************************************************************)
(* Post-order: the entries moved from dirnames to filenames                *)
(***************************************************************************)
\* An entry the walker lists among the sub-directories (is_dir() follows
\* links) and FileType.from_path does not call a directory.
Recategorised(n) == os_path_isdir(fs[n]) /\ Classified(n) # "DIRECTORY"

\* The file tasks submitted for entry n.
FileTasks(n) == {u \in TaskIds : tasks[u].path = n /\ ~tasks[u].is_dir}

(* C30: post-order with strict_hierarchical_order: an entry listed among a
   directory's sub-directories and classified as something else has a
   file_func task; that task is among the futures the directory's task waits
   on, and dir_func is called on the directory only after file_func has
   returned on the entry. *)
RecategorisedAwaited ==
    (~pre_order /\ strict_hierarchical_order) =>
        \A t \in TaskIds :
            tasks[t].is_dir =>
                \A n \in Nodes :
                    (fs[n].parent = tasks[t].path /\ Recategorised(n)) =>
                        /\ DirCalls(n) = 0
                        /\ \E u \in FileTasks(n) :
                               /\ u \in tasks[t].deps
                               /\ OpStarted(t) => OpCompleted(u)

\* dir_func runs on A, with a second worker free, after file_func has
\* returned on the symlink A/l.
RecategorisedAwaitedWitness ==
    /\ ~pre_order /\ strict_hierarchical_order /\ num_max_threads >= 2
    /\ platform = "posix" /\ Recategorised(4)
    /\ \E t \in TaskIds :
           /\ tasks[t].pc = "op" /\ tasks[t].path = 1 /\ tasks[t].is_dir
           /\ \E u \in FileTasks(4) : u \in tasks[t].deps /\ OpCompleted(u)

\* The same with the junction A/l of the win32 tree.
RecategorisedJunctionWitness ==
    /\ ~pre_order /\ strict_hierarchical_order /\ num_max_threads >= 2
    /\ platform = "win32" /\ Classified(4) = "JUNCTION"
    /\ \E t \in TaskIds :
           /\ tasks[t].pc = "op" /\ tasks[t].path = 1 /\ tasks[t].is_dir
           /\ \E u \in FileTasks(4) : u \in tasks[t].deps /\ OpCompleted(u)

\* A directory that was removed after the walker listed it: its file_func
\* task is among the futures its parent's task waits on, and that task has
\* ended, with the FileNotFoundError of path.stat, when dir_func is called
\* on the parent.
VanishedAwaited ==
    (~pre_order /\ strict_hierarchical_order) =>
        \A t \in TaskIds :
            tasks[t].is_dir =>
                \A u \in TaskIds :
                    (/\ ~tasks[u].is_dir
                     /\ fs[tasks[u].path].parent = tasks[t].path
                     /\ fs[tasks[u].path].mode = "DIR"
                     /\ ~fs[tasks[u].path].junction) =>
                        /\ ~fs[tasks[u].path].exists
                        /\ u \in tasks[t].deps
                        /\ OpStarted(t) => tasks[u].pc = "failed"

\* dir_func runs on A after the task of the removed A/b has ended.
VanishedAwaitedWitness ==
    /\ ~pre_order /\ strict_hierarchical_order
    /\ \E t \in TaskIds :
           /\ tasks[t].pc = "op" /\ tasks[t].path = 1 /\ tasks[t].is_dir
           /\ \E u \in FileTasks(2) :
                  u \in tasks[t].deps /\ tasks[u].pc = "failed"

(***************************************************************************)
(* The return of parallel_recursive_apply                                  *)
(***************************************************************************)
\* The final lines printed so far.
FinalLines == {i \in DOMAIN out : out[i].kind = "final"}

(* C31: parallel_recursive_apply prints its final line and returns only
   when every task submitted, for every root, has finished: none is queued
   and none is running; the counters the final line shows are the values
   the counters end with. *)
ReturnsAfterDrain ==
    /\ (mpc \in {"final", "returned"}) =>
           /\ Queue = {} /\ InProgress = {}
           /\ TaskIds = fut_done
    /\ final_printed <=> FinalLines # {}
    /\ \A i \in FinalLines :
           /\ i = Len(out)
           /\ out[i].files = num_done_files
           /\ out[i].dirs = num_done_dirs
           /\ out[i].bytes = num_done_bytes

\* Two roots, a plain file and a link to a directory, served by two
\* workers: the call has returned, tasks of both roots have finished, and
\* the final line shows counters that moved.
ReturnsAfterDrainWitness ==
    /\ mpc = "returned" /\ paths = <<6, 7>> /\ num_max_threads >= 2
    /\ \E t, u \in fut_done : tasks[t].path = 6 /\ tasks[u].root = 7
    /\ \E i \in FinalLines : out[i].files + out[i].dirs >= 2

(***************************************************************************)
(* path.stat fails in call_with_progress_and_try                           *)
(***************************************************************************)
\* Task t is about to take the size of an entry that is gone.
StatFails(t) ==
    /\ Alive /\ tasks[t].pc = "wait" /\ tasks[t].has_root
    /\ wait(tasks[t].deps)
    /\ ~fs[tasks[t].path].exists

\* The tasks that ended in the exception of path.stat.
StatFailed == {t \in TaskIds : tasks[t].pc = "failed" /\ tasks[t].has_root}

(* C32: when path.stat raises in call_with_progress_and_try, because the
   entry is gone, the user's function is not called on the entry, the
   counters stay as they are, nothing is printed, the process goes on, the
   task is over with the exception kept in its future; and a task that
   waits on it is free to start as soon as its other futures are done. *)
StatFailureSilent ==
    /\ [][\A t \in TaskIds :
              (StatFails(t) /\ tasks'[t] # tasks[t]) =>
                  /\ tasks'[t].pc = "failed"
                  /\ UNCHANGED <<counter_vars, out_vars, print_vars>>]_vars
    /\ [](\A t \in StatFailed :
              /\ ~OpStarted(t) /\ t \notin op_raised
              /\ t \in fut_done
              /\ \A u \in TaskIds :
                     (/\ t \in tasks[u].deps
                      /\ tasks[u].pc = "wait"
                      /\ fs[tasks[u].path].exists
                      /\ wait(tasks[u].deps \ {t})) => wait(tasks[u].deps))

\* The task of A/b ended in the exception of path.stat, nothing was
\* printed for it, and dir_func runs on A, whose task waited on it.
StatFailureSilentWitness ==
    /\ ~pre_order /\ strict_hierarchical_order /\ Alive
    /\ err_printed = {} /\ op_raised = {}
    /\ \E t \in StatFailed, u \in TaskIds :
           /\ tasks[t].path = 2
           /\ t \in tasks[u].deps
           /\ tasks[u].path = 1 /\ tasks[u].is_dir /\ tasks[u].pc = "op"

====
